---- MODULE Spec2Model ----
(***************************************************************************)
(* Conversation orchestrator of the orchestration service: the shared      *)
(* store (conversation records, per-conversation lock key, the             *)
(* active_conversations set), and the ConversationManager tasks that       *)
(* drive a conversation through its turns.                                 *)
(*                                                                         *)
(* A task is a pair <<worker, conversation>>.  Every store call and every  *)
(* LLM call is a suspension point and is one step of the task; the local   *)
(* computation between two suspension points belongs to the step that      *)
(* precedes it.  Wall-clock time is an input: the timeout test of the loop *)
(* and the expiry of the lock key are nondeterministic.  Time-valued       *)
(* fields (created_at, completed_at, duration_seconds, timestamp,          *)
(* latency_ms) carry no information here and are left out of the records.  *)
(***************************************************************************)
EXTENDS Integers, Sequences, FiniteSets, TLC

\* ------------------------------------------------------------------ bounds
MaxTurns == 1
MinTurns == 1
\* max_turns of the managers whose turn numbers are followed
TurnLimit == 2
MaxConcurrent == 1

\* settings of the LLM client: requests per window, window, breaker threshold,
\* breaker timeout (seconds); the last instant of the client's clock and the
\* number of attempts made on one client
rate_limit_requests_per_minute == 2
rate_limit_window_seconds == 2
circuit_breaker_failure_threshold == 2
circuit_breaker_timeout_seconds == 2
MaxTime == 4
MaxAttempts == 5

\* kafka_max_retries of the producer, the messages the consumer is given and
\* the topics that stand in the queue
max_retries == 2
MaxMessages == 2
MaxTopics == 3

\* the instances a factory constructs for one provider name
MaxInstances == 2

\* the seconds one provider call takes in the specification of the timeout
provider_call_seconds == 80

Workers == {"w1", "w2"}
Convs == {"c1"}
Tasks == Workers \X Convs
\* the conversations of the specification of the semaphore, all of one manager
SemConvs == {"c1", "c2", "c3"}
SemTasks == {"w1"} \X SemConvs

TokenChoices == {2}
ContentChoices == {"plain"}
Starters == {"w1"}
\* the managers that were constructed with a kafka_producer
WithProducer == {"w1"}

\* --------------------------------------------------------------- constants
NoRec == [absent |-> TRUE]

\* a caller of the factory that holds no client
NoClient == [provider |-> "none", no |-> 0]

\* acquire_conversation_lock(conversation_id, timeout=30)
LockTimeout == 30

\* the callers that share one client, and what a request can end with:
\* a response, aiohttp.ClientError or asyncio.TimeoutError, another
\* Exception, the cancellation of the calling task
Callers == {"k1", "k2"}
RequestResults == {"ok", "client_error", "error", "cancelled"}

\* the defaults of the manager's settings, and the tokens the two providers
\* of the test fixtures answer with
max_conversation_turns == 10
min_conversation_turns == 5
conversation_timeout_seconds == 300
tokens_anthropic == 50
tokens_google == 45

\* @retry(stop=stop_after_attempt(3), wait=wait_exponential(1, 1, 10))
stop_after_attempt == 3
wait_min == 1
wait_max == 10

models == <<"anthropic", "google">>
\* the names the callers of create_client pass
ProviderNames == {"anthropic", "google"}

conclusion_phrases == {"in conclusion", "to summarize", "overall",
                       "in summary", "that concludes", "final thoughts"}

VARIABLES
    rec,        \* store: conversation:{id} -> record or NoRec
    lock,       \* store: lock:conversation:{id} exists
    activeIds,  \* store: the set active_conversations
    active,     \* manager: keys of _active_conversations, per worker
    sem,        \* manager: free permits of _conversation_semaphore
    pc,         \* task: suspension point
    state,      \* task: local variable state of _process_conversation
    idx,        \* task: local variable current_model_idx
    upd,        \* task: argument updates of the running update call
    cur,        \* task: current_state inside update_conversation_state
    kind,       \* task: call site of the running update call
    cancelReq,  \* task: task.cancel() was called, CancelledError pending
    spc,        \* stop_conversation call: suspension point
    scur,       \* stop_conversation call: current_state inside its update
    usedIds,    \* conversation ids handed out by uuid4
    holds,      \* history: acquire returned true and the run has not ended
    calls,      \* history: generate_response calls of the current run
    exitWhy,    \* history: why the current run left the turn loop
    published,  \* bus: the events sent by the managers, records of topic,
                \* conversation_id (in the value) and key ("none": no key)
    stopRet,    \* history (StopSpec): stop_conversation has returned True
    lockKey,    \* timed lock: the key, a record of
                \*   ttl        seconds it has left, 0 no key, -1 no expiry
                \*   by         history, the worker whose SET created it
                \*   expiredOf  history, whose key was the last to expire
    lockUser,   \* timed lock: per worker, a record of
                \*   st   what the worker does with the lock
                \*   acq  history, outcome of its last acquire
    client,     \* the BaseLLMClient object, a record of
                \*   settings  the settings it was constructed with, of
                \*             which circuit_breaker_failure_threshold
                \*   now  time.time(), in seconds
                \*   _rate_limit_tokens, _circuit_breaker_failures,
                \*   _circuit_breaker_last_failure, _circuit_breaker_open
                \*   accepted   history, requests accepted at each instant
                \*   nAttempts  history, attempts made on the client
                \*   resetFrom  history, largest count a success has reset
    caller,     \* per caller of generate_response, a record of
                \*   pc       "idle", "request" (in _make_request), "backoff"
                \*   attempt  attempt number of its call, kept when it ends
                \*   wakeAt   end of the wait before its next attempt
                \*   outcome  history, how its last attempt ended
                \*   probe    history, the breaker was reset from open to
                \*            closed by the check of its attempt in flight
    kafka,      \* the KafkaProducer and the consumer side, a record of
                \*   _producer  the producer was started
                \*   pc         "idle", "send" (in _producer.send), "sleep",
                \*              "handler" (in the handler), "routed"
                \*   purpose    who called send_event: "event", "dlq"
                \*   key        the key in the kwargs of the send
                \*   attempt    loop variable of send_event
                \*   sends      history, sends made by the last send_event
                \*   lastSend   history, how the last of them ended
                \*   ret        history, how the last send_event ended
                \*   msg        offset of the message fetched last
                \*   via        its dispatcher: "router", "consumer"
                \*   value      its value, one of MessageValues
                \*   result     what the dispatcher returned for it, "raised"
                \*              when it raised
                \*   failed     history, offsets whose handler failed or
                \*              whose value route_message could not parse
                \*   dlqCalled  history, offsets given to _send_to_dlq
                \*   dlqSent    history, offsets whose envelope was sent
                \*   committed  the committed offset
    topicq,     \* the topic queue, a record of
                \*   queue     the redis list topic_queue, head first
                \*   call      per worker: "idle", "lpop", "reply"
                \*   reply     per worker: what its call returns, 0 None
                \*   got       history, per worker: the topics returned
                \*   returned  history, the topics in the order of return
                \*   popped    history, the topics in the order of removal
                \*   sawEmpty  history, an LPOP found the list empty
    storeCall,  \* calls of the RedisStateManager by a maintenance client,
                \* a record of two records:
                \*   save     the running save_conversation_state call:
                \*     pc   "idle", "set" (before SET), "sadd" (before SADD)
                \*     c, arg   its arguments conversation_id and state
                \*     ret  what the last call returned
                \*   cleanup  the running cleanup_expired_conversations:
                \*     pc   "idle", "list", "exists", "srem"
                \*     ids  the ids of the loop not yet visited
                \*     conv_id, cleaned_count   its local variables
                \*     ret  what the last call returned, -1 before any
                \*     removed  history, ids the running call has removed
                \*   delete   the running delete_conversation_state call:
                \*     pc   "idle", "del" (before DEL), "srem" (before SREM)
                \*     c    its argument conversation_id
                \*     ret  what the last call returned
    factory     \* the LLMClientFactory of one worker, a record of
                \*   _clients   the cache, provider name -> instance
                \*   made       history, instances constructed per name
                \*   given      history, instances returned per name since
                \*              the cache was emptied last
                \*   held       per caller: the client it got and uses
                \*   left, size stop_all: clients it has still to stop,
                \*              len(_clients) when its loop began

storeVars == <<rec, lock, activeIds>>
mgrVars == <<active, sem>>
taskVars == <<pc, state, idx, upd, cur, kind, cancelReq>>
stopVars == <<spc, scur>>
histVars == <<usedIds, holds, calls, exitWhy>>
vars == <<rec, lock, activeIds, active, sem, pc, state, idx, upd, cur, kind,
          cancelReq, spc, scur, usedIds, holds, calls, exitWhy,
          published, stopRet, lockKey, lockUser, client, caller,
          kafka, topicq, storeCall, factory>>
loopVars == <<storeVars, mgrVars, taskVars, stopVars, histVars,
              published, stopRet>>
ttlVars == <<lockKey, lockUser>>
clientVars == <<client, caller>>
busVars == <<kafka, topicq>>
svcVars == <<storeCall, factory>>
\* the variables an action of the conversation loop leaves alone unless it
\* says otherwise
auxVars == <<published, stopRet, ttlVars, clientVars, busVars, svcVars>>

\* ----------------------------------------------------------- pure helpers
\* the list topic_queue after the scraper has pushed MaxTopics topics with
\* add_topic_to_queue (RPUSH): topic i stands at place i from the head
QueuedTopics == [i \in 1..MaxTopics |-> i]

\* dict.update / {**a, **b}: keys of b replace keys of a, whole values
DictUpdate(a, b) ==
    [k \in (DOMAIN a) \cup (DOMAIN b) |-> IF k \in DOMAIN b THEN b[k] ELSE a[k]]

\* the entries of a that a.update(b) keeps: a.update(b) = Kept(a, b).update(b),
\* so a task between the read and the write of an update carries only these
Kept(a, b) == [k \in (DOMAIN a) \ (DOMAIN b) |-> a[k]]

\* dict.get(key, default)
DictGet(d, k, default) == IF k \in DOMAIN d THEN d[k] ELSE default

ModelName(model_type) ==
    IF model_type = "anthropic" THEN "claude-3-sonnet" ELSE "gemini-pro"

RECURSIVE SumTokens(_)
SumTokens(turns) ==
    IF turns = <<>> THEN 0
    ELSE DictGet(turns[1], "tokens", 0) + SumTokens(Tail(turns))

\* a content of more than ten words; two equal ones overlap completely
LongContent(content) == content = "long"

_detect_repetition(turns) ==
    IF Len(turns) < 4 THEN FALSE
    ELSE LET recent == SubSeq(turns, Len(turns) - 3, Len(turns))
         IN \E i \in 1..4 : \E j \in (i+1)..4 :
               /\ LongContent(recent[i].content)
               /\ LongContent(recent[j].content)
               /\ recent[i].content = recent[j].content

\* _should_end_conversation of a manager whose min_turns is min_turns
ShouldEnd(min_turns, s) ==
    IF Len(s.turns) < min_turns THEN FALSE
    ELSE IF _detect_repetition(s.turns) THEN TRUE
    ELSE s.turns[Len(s.turns)].content \in conclusion_phrases

_should_end_conversation(s) == ShouldEnd(MinTurns, s)

InitialState(c) ==
    [conversation_id |-> c,
     topic |-> "topic",
     turns |-> <<>>,
     metadata |-> [status |-> "started",
                   total_turns |-> 0,
                   total_tokens |-> 0,
                   models_used |-> {}]]

\* isinstance(v, list), for a value that is a list or a dict
IsList(v) == DOMAIN v = 1..Cardinality(DOMAIN v)

\* the validation without the test of the turns
_validate_conversation_stateLax(s) ==
    {"conversation_id", "topic", "turns"} \subseteq DOMAIN s

_validate_conversation_state(s) ==
    /\ {"conversation_id", "topic", "turns"} \subseteq DOMAIN s
    /\ IsList(s.turns)

\* TurnData with the turn numbered from the length before the append
TurnDataOffByOne(s, response) ==
    LET turn_number == Len(s.turns)
    IN [turn_number |-> turn_number,
        model |-> response.model,
        role |-> IF ((turn_number % 2) + 1) = 1 THEN "assistant_1" ELSE "assistant_2",
        content |-> response.content,
        tokens |-> DictGet(response, "tokens", 0)]

\* _process_turn, lines 205-217
TurnData(s, response) ==
    LET turn_number == Len(s.turns) + 1
    IN [turn_number |-> turn_number,
        model |-> response.model,
        role |-> IF ((turn_number % 2) + 1) = 1 THEN "assistant_1" ELSE "assistant_2",
        content |-> response.content,
        tokens |-> DictGet(response, "tokens", 0)]

\* _process_turn, lines 219-233; raises KeyError on a metadata without
\* models_used or total_tokens
TurnRaises(s) ==
    ~ ({"models_used", "total_tokens"} \subseteq DOMAIN s.metadata)

TurnUpdates(s, response) ==
    LET new_turns == Append(s.turns, TurnData(s, response))
    IN [turns |-> new_turns,
        metadata |-> DictUpdate(s.metadata,
                        [total_turns |-> Len(new_turns),
                         total_tokens |-> s.metadata.total_tokens
                                            + DictGet(response, "tokens", 0),
                         models_used |-> s.metadata.models_used
                                            \cup {response.model},
                         status |-> "in_progress"])]

CompletedUpdates(s) ==
    [metadata |-> DictUpdate(s.metadata, [status |-> "completed"])]

ErrorUpdates == [metadata |-> [status |-> "error", error |-> "exception"]]

StoppedUpdates == [metadata |-> [status |-> "stopped"]]

Response(model_type, content, tok) ==
    [model |-> ModelName(model_type), content |-> content, tokens |-> tok]


\* ------------------------------------------------------------------- Init
\* the state after construction of the store, the managers, the lock key
\* and the client, for the conversation ids and tasks given
\* the value of the variables of a part that a specification does not run
NotRun == "not run"

\* circuit_breaker_failure_threshold of a client on the default settings,
\* on which the retries of one call are followed
RetryThreshold == 5

\* The state after construction, over the conversations convs and the tasks
\* tasks, of the manager and the store together with the parts named in
\* parts: "lock" the timed lock, "client" the LLM client, "kafka" the
\* producer and the dispatch, "queue" the topic queue, "store" the calls of a
\* maintenance client, "factory" the client factory.
InitOver(convs, tasks, parts) ==
    /\ rec = [c \in convs |-> NoRec]
    /\ lock = [c \in convs |-> FALSE]
    /\ activeIds = {}
    /\ active = [w \in Workers |-> {}]
    /\ sem = [w \in Workers |-> MaxConcurrent]
    /\ pc = [t \in tasks |-> "idle"]
    /\ state = [t \in tasks |-> NoRec]
    /\ idx = [t \in tasks |-> 0]
    /\ upd = [t \in tasks |-> NoRec]
    /\ cur = [t \in tasks |-> NoRec]
    /\ kind = [t \in tasks |-> "none"]
    /\ cancelReq = [t \in tasks |-> FALSE]
    /\ spc = [t \in tasks |-> "idle"]
    /\ scur = [t \in tasks |-> NoRec]
    /\ usedIds = {}
    /\ holds = [t \in tasks |-> FALSE]
    /\ calls = [t \in tasks |-> 0]
    /\ exitWhy = [t \in tasks |-> "none"]
    /\ published = {}
    /\ stopRet = [t \in tasks |-> FALSE]
    /\ lockKey =
         IF "lock" \in parts
         THEN [ttl |-> 0, by |-> "none", expiredOf |-> "none"]
         ELSE NotRun
    /\ lockUser =
         IF "lock" \in parts
         THEN [w \in Workers |-> [st |-> "idle", acq |-> "none"]]
         ELSE NotRun
    /\ client =
         IF "client" \in parts
         THEN [settings |->
                   [circuit_breaker_failure_threshold |->
                       IF "retry" \in parts THEN RetryThreshold
                       ELSE circuit_breaker_failure_threshold],
               now |-> 0,
               _rate_limit_tokens |-> <<>>,
               _circuit_breaker_failures |-> 0,
               _circuit_breaker_last_failure |-> 0,
               _circuit_breaker_open |-> FALSE,
               accepted |-> [u \in 0..MaxTime |-> 0],
               nAttempts |-> 0,
               resetFrom |-> 0]
         ELSE NotRun
    /\ kafka =
         IF "kafka" \in parts
         THEN [_producer |-> FALSE, pc |-> "idle", purpose |-> "none",
               key |-> "none", attempt |-> 0, sends |-> 0,
               lastSend |-> "none", ret |-> "none", msg |-> 0,
               via |-> "none", value |-> "none", result |-> "none",
               failed |-> {},
               dlqCalled |-> {}, dlqSent |-> {}, committed |-> 0]
         ELSE NotRun
    /\ topicq =
         IF "queue" \in parts
         THEN [queue |-> QueuedTopics,
               call |-> [w \in Workers |-> "idle"],
               reply |-> [w \in Workers |-> 0],
               got |-> [w \in Workers |-> <<>>],
               returned |-> <<>>,
               popped |-> <<>>,
               sawEmpty |-> FALSE]
         ELSE NotRun
    /\ storeCall =
         IF "store" \in parts
         THEN [save |-> [pc |-> "idle", c |-> "none", arg |-> NoRec,
                         ret |-> "none"],
               cleanup |-> [pc |-> "idle", ids |-> {}, conv_id |-> "none",
                            cleaned_count |-> 0, ret |-> -1,
                            removed |-> {}],
               delete |-> [pc |-> "idle", c |-> "none", ret |-> "none"]]
         ELSE NotRun
    /\ factory =
         IF "factory" \in parts
         THEN [_clients |-> [n \in {} |-> 0],
               made |-> [n \in ProviderNames |-> {}],
               given |-> [n \in ProviderNames |-> {}],
               held |-> [k \in Callers |-> NoClient],
               left |-> 0, size |-> 0]
         ELSE NotRun
    /\ caller =
         IF "client" \in parts
         THEN [k \in Callers |->
                  [pc |-> "idle", attempt |-> 0, wakeAt |-> 0,
                   outcome |-> "none", probe |-> FALSE]]
         ELSE NotRun

Init == InitOver(Convs, Tasks, {})

\* ------------------------------------------------- control flow of the loop
\* lines 154-171: the completion write; evaluating state["metadata"] on a
\* state that is None raises, and the except branch writes the error status
Leave(s, i, why) ==
    IF s = NoRec
    THEN [pc |-> "upd_read", idx |-> i, upd |-> ErrorUpdates,
          kind |-> "error", exitWhy |-> why]
    ELSE [pc |-> "upd_read", idx |-> i, upd |-> CompletedUpdates(s),
          kind |-> "complete", exitWhy |-> why]

\* lines 125-143: the head of the while loop down to the call of _process_turn
\* of a manager whose settings are max_turns and min_turns
LoopHeadWith(max_turns, min_turns, s, i, timedOut) ==
    IF Len(s.turns) < max_turns
    THEN IF timedOut THEN Leave(s, 0, "timeout")
         ELSE IF Len(s.turns) >= min_turns /\ ShouldEnd(min_turns, s)
              THEN Leave(s, 0, "natural_ending")
              ELSE [pc |-> "llm", idx |-> i + 1, upd |-> NoRec,
                    kind |-> "none", exitWhy |-> "none"]
    ELSE Leave(s, 0, "max_turns")

LoopHead(s, i, timedOut) == LoopHeadWith(MaxTurns, MinTurns, s, i, timedOut)

\* the task t continues at the control point ctl with local state s; a local
\* variable that is not read again on any path from ctl is reset
Goto(t, s, ctl) ==
    /\ pc' = [pc EXCEPT ![t] = ctl.pc]
    /\ state' = [state EXCEPT ![t] = s]
    /\ idx' = [idx EXCEPT ![t] = ctl.idx]
    /\ upd' = [upd EXCEPT ![t] = ctl.upd]
    /\ kind' = [kind EXCEPT ![t] = ctl.kind]
    /\ exitWhy' = [exitWhy EXCEPT ![t] = ctl.exitWhy]
    /\ cur' = [cur EXCEPT ![t] = NoRec]

\* the task t enters the finally block
GotoRelease(t, why) ==
    /\ pc' = [pc EXCEPT ![t] = "release"]
    /\ state' = [state EXCEPT ![t] = NoRec]
    /\ idx' = [idx EXCEPT ![t] = 0]
    /\ upd' = [upd EXCEPT ![t] = NoRec]
    /\ cur' = [cur EXCEPT ![t] = NoRec]
    /\ exitWhy' = [exitWhy EXCEPT ![t] = why]
    /\ UNCHANGED kind

\* start_new_conversation after save_conversation_state has returned, its
\* result dropped (line 79): the send of lines 82-92 when the manager has a
\* producer, else the task of lines 95-98
AfterSave(t) ==
    IF t[1] \in WithProducer
    THEN /\ pc' = [pc EXCEPT ![t] = "new_send"]
         /\ UNCHANGED active
    ELSE /\ pc' = [pc EXCEPT ![t] = "start"]
         /\ active' = [active EXCEPT ![t[1]] = @ \cup {t[2]}]

\* start_new_conversation, lines 58-79, up to the answer of the SET of
\* save_conversation_state (redis_state.py line 72): a fresh uuid and the
\* initial record; a record that is not valid and a store error end the save
\* with False
Start(w, c, ok) ==
    LET t == <<w, c>> IN
    /\ c \notin usedIds
    /\ pc[t] = "idle"
    /\ usedIds' = usedIds \cup {c}
    /\ IF ok /\ _validate_conversation_state(InitialState(c))
       THEN /\ rec' = [rec EXCEPT ![c] = InitialState(c)]
            /\ pc' = [pc EXCEPT ![t] = "new_sadd"]
            /\ UNCHANGED active
       ELSE /\ UNCHANGED rec
            /\ AfterSave(t)
    /\ UNCHANGED <<lock, activeIds, sem, state, idx, upd, cur, kind, cancelReq,
                   stopVars, holds, calls, exitWhy, published, stopRet,
                   ttlVars, clientVars, busVars, svcVars>>

\* start_new_conversation: the SADD of save_conversation_state (redis_state.py
\* line 73); a store error ends the save with False, the record stays written
NewSadd(t, ok) ==
    /\ pc[t] = "new_sadd"
    /\ activeIds' = IF ok THEN activeIds \cup {t[2]} ELSE activeIds
    /\ AfterSave(t)
    /\ UNCHANGED <<rec, lock, sem, state, idx, upd, cur, kind, cancelReq,
                   stopVars, histVars, published, stopRet,
                   ttlVars, clientVars, busVars, svcVars>>

\* start_new_conversation, lines 82-100: kafka_producer.send, then the task
\* is created and registered; an exception of the send leaves the call, and
\* no task is created
NewSend(t, ok) ==
    /\ pc[t] = "new_send"
    /\ IF ok
       THEN /\ published' = published \cup {[topic |-> "conversation.new",
                                              conversation_id |-> t[2],
                                              key |-> "none"]}
            /\ pc' = [pc EXCEPT ![t] = "start"]
            /\ active' = [active EXCEPT ![t[1]] = @ \cup {t[2]}]
       ELSE /\ pc' = [pc EXCEPT ![t] = "raised"]
            /\ UNCHANGED <<published, active>>
    /\ UNCHANGED <<storeVars, sem, state, idx, upd, cur, kind, cancelReq,
                   stopVars, histVars, stopRet,
                   ttlVars, clientVars, busVars, svcVars>>

\* a worker that has no task for the conversation runs _process_conversation
\* on an id that exists in the shared store
Resume(w, c) ==
    LET t == <<w, c>> IN
    /\ c \in usedIds
    /\ c \notin active[w]
    /\ pc[t] = "idle"
    /\ pc' = [pc EXCEPT ![t] = "start"]
    /\ kind' = [kind EXCEPT ![t] = "none"]
    /\ exitWhy' = [exitWhy EXCEPT ![t] = "none"]
    /\ calls' = [calls EXCEPT ![t] = 0]
    /\ UNCHANGED <<storeVars, mgrVars, state, idx, upd, cur, cancelReq,
                   stopVars, usedIds, holds>>
    /\ UNCHANGED auxVars

\* the processing section entered without waiting for a free permit
EnterUnguarded(t) ==
    /\ pc[t] = "start"
    /\ ~cancelReq[t]
    /\ sem' = [sem EXCEPT ![t[1]] = @ - 1]
    /\ pc' = [pc EXCEPT ![t] = "lock"]
    /\ UNCHANGED <<storeVars, active, state, idx, upd, cur, kind, cancelReq,
                   stopVars, histVars>>
    /\ UNCHANGED auxVars

\* async with self._conversation_semaphore
Enter(t) ==
    /\ pc[t] = "start"
    /\ ~cancelReq[t]
    /\ sem[t[1]] > 0
    /\ sem' = [sem EXCEPT ![t[1]] = @ - 1]
    /\ pc' = [pc EXCEPT ![t] = "lock"]
    /\ UNCHANGED <<storeVars, active, state, idx, upd, cur, kind, cancelReq,
                   stopVars, histVars>>
    /\ UNCHANGED auxVars

\* acquire_conversation_lock: SET lock NX EX 30; a store error gives False
AcquireLock(t, ok) ==
    LET c == t[2] IN
    /\ pc[t] = "lock"
    /\ ~cancelReq[t]
    /\ IF ok /\ ~lock[c]
       THEN /\ lock' = [lock EXCEPT ![c] = TRUE]
            /\ holds' = [holds EXCEPT ![t] = TRUE]
            /\ pc' = [pc EXCEPT ![t] = "get_init"]
            /\ UNCHANGED <<state, idx, upd, cur, kind, exitWhy>>
       ELSE /\ GotoRelease(t, "lock_refused")
            /\ UNCHANGED <<lock, holds>>
    /\ UNCHANGED <<rec, activeIds, mgrVars, cancelReq, stopVars, usedIds, calls>>
    /\ UNCHANGED auxVars

\* lines 116-119 and the first evaluation of the loop head
\* of a manager whose settings are max_turns and min_turns
GetInitialWith(max_turns, min_turns, t, ok, timedOut) ==
    LET s == IF ok THEN rec[t[2]] ELSE NoRec IN
    /\ pc[t] = "get_init"
    /\ ~cancelReq[t]
    /\ IF s = NoRec
       THEN GotoRelease(t, "no_record")
       ELSE LET ctl == LoopHeadWith(max_turns, min_turns, s, 0, timedOut)
            IN Goto(t, IF ctl.pc = "llm" THEN s ELSE NoRec, ctl)
    /\ UNCHANGED <<storeVars, mgrVars, cancelReq, stopVars, usedIds, holds, calls>>
    /\ UNCHANGED auxVars

GetInitial(t, ok, timedOut) ==
    GetInitialWith(MaxTurns, MinTurns, t, ok, timedOut)

\* the model that answers the call number i of a run
ModelAt(i) == models[((i - 1) % Len(models)) + 1]

\* _process_turn with a turn of a failed call written to the store
LLMCallWriting(t, ok, content, tok, expired) ==
    LET s == state[t]
        response == Response(ModelAt(idx[t]), content, tok)
    IN
    /\ pc[t] = "llm"
    /\ ~cancelReq[t]
    /\ calls' = [calls EXCEPT ![t] = @ + 1]
    /\ IF ok /\ ~TurnRaises(s)
       THEN /\ Goto(t, s, [pc |-> "upd_read", idx |-> idx[t],
                           upd |-> TurnUpdates(s, response),
                           kind |-> "turn", exitWhy |-> "none"])
            /\ UNCHANGED <<rec, activeIds>>
       ELSE /\ Goto(t, NoRec, Leave(s, 0, "turn_failed"))
            /\ rec' = [rec EXCEPT ![t[2]] =
                         DictUpdate(s, [turns |-> Append(s.turns,
                                                     TurnData(s, response))])]
            /\ UNCHANGED activeIds
    /\ lock' = IF expired THEN [lock EXCEPT ![t[2]] = FALSE] ELSE lock
    /\ UNCHANGED <<mgrVars, cancelReq, stopVars, usedIds, holds>>
    /\ UNCHANGED auxVars

\* _process_turn up to the call of update_conversation_state; expired: the
\* 30 s of the lock key run out while the provider call lasts
LLMCall(t, ok, content, tok, expired) ==
    LET s == state[t]
        model_type == ModelAt(idx[t])
        response == Response(model_type, content, tok)
    IN
    /\ pc[t] = "llm"
    /\ ~cancelReq[t]
    /\ calls' = [calls EXCEPT ![t] = @ + 1]
    /\ IF ok /\ ~TurnRaises(s)
       THEN Goto(t, s, [pc |-> "upd_read", idx |-> idx[t],
                        upd |-> TurnUpdates(s, response),
                        kind |-> "turn", exitWhy |-> "none"])
       ELSE Goto(t, NoRec, Leave(s, 0, "turn_failed"))
    /\ lock' = IF expired THEN [lock EXCEPT ![t[2]] = FALSE] ELSE lock
    /\ UNCHANGED <<rec, activeIds, mgrVars, cancelReq, stopVars, usedIds,
                   holds>>
    /\ UNCHANGED auxVars

\* the caller's continuation after update_conversation_state returned result
AfterUpdate(t, result) ==
    IF kind[t] = "turn"
    THEN IF result
         THEN Goto(t, state[t], [pc |-> "reload", idx |-> idx[t], upd |-> NoRec,
                                 kind |-> "none", exitWhy |-> "none"])
         ELSE Goto(t, NoRec, Leave(state[t], 0, "turn_failed"))
    ELSE GotoRelease(t, exitWhy[t])

\* update_conversation_state, lines 101-104: the read
UpdRead(t, ok) ==
    LET r == IF ok THEN rec[t[2]] ELSE NoRec IN
    /\ pc[t] = "upd_read"
    /\ ~cancelReq[t]
    /\ IF r = NoRec
       THEN AfterUpdate(t, FALSE)
       ELSE /\ cur' = [cur EXCEPT ![t] = Kept(r, upd[t])]
            /\ pc' = [pc EXCEPT ![t] = "upd_write"]
            /\ UNCHANGED <<state, idx, upd, kind, exitWhy>>
    /\ UNCHANGED <<storeVars, mgrVars, cancelReq, stopVars, usedIds, holds, calls>>
    /\ UNCHANGED auxVars

\* update_conversation_state, lines 106-110: merge, then the SET of
\* save_conversation_state (line 72); a record that is not valid and a store
\* error end the save with False
UpdWrite(t, ok) ==
    LET new == DictUpdate(cur[t], upd[t]) IN
    /\ pc[t] = "upd_write"
    /\ ~cancelReq[t]
    /\ IF ok /\ _validate_conversation_state(new)
       THEN /\ rec' = [rec EXCEPT ![t[2]] = new]
            /\ pc' = [pc EXCEPT ![t] = "upd_sadd"]
            /\ cur' = [cur EXCEPT ![t] = NoRec]
            /\ UNCHANGED <<state, idx, upd, kind, exitWhy>>
       ELSE /\ UNCHANGED rec
            /\ AfterUpdate(t, FALSE)
    /\ UNCHANGED <<lock, activeIds, mgrVars, cancelReq, stopVars, usedIds,
                   holds, calls>>
    /\ UNCHANGED auxVars

\* update_conversation_state: the SADD of save_conversation_state (line 73);
\* a store error ends the save with False, the record stays written
UpdSadd(t, ok) ==
    /\ pc[t] = "upd_sadd"
    /\ ~cancelReq[t]
    /\ activeIds' = IF ok THEN activeIds \cup {t[2]} ELSE activeIds
    /\ AfterUpdate(t, ok)
    /\ UNCHANGED <<rec, lock, mgrVars, cancelReq, stopVars, usedIds, holds,
                   calls>>
    /\ UNCHANGED auxVars

\* lines 150-152 and the next evaluation of the loop head
\* of a manager whose settings are max_turns and min_turns
ReloadWith(max_turns, min_turns, t, ok, timedOut) ==
    LET s == IF ok THEN rec[t[2]] ELSE NoRec IN
    /\ pc[t] = "reload"
    /\ ~cancelReq[t]
    /\ IF s = NoRec
       THEN Goto(t, NoRec, Leave(s, 0, "reload_failed"))
       ELSE LET ctl == LoopHeadWith(max_turns, min_turns, s, idx[t], timedOut)
            IN Goto(t, IF ctl.pc = "llm" THEN s ELSE NoRec, ctl)
    /\ UNCHANGED <<storeVars, mgrVars, cancelReq, stopVars, usedIds, holds, calls>>
    /\ UNCHANGED auxVars

Reload(t, ok, timedOut) == ReloadWith(MaxTurns, MinTurns, t, ok, timedOut)

\* the finally block and the exit of the semaphore
Release(t, ok) ==
    LET w == t[1]
        c == t[2]
    IN
    /\ pc[t] = "release"
    /\ ~cancelReq[t]
    /\ lock' = [lock EXCEPT ![c] = IF ok THEN FALSE ELSE @]
    /\ active' = [active EXCEPT ![w] = @ \ {c}]
    /\ sem' = [sem EXCEPT ![w] = @ + 1]
    /\ pc' = [pc EXCEPT ![t] = "done"]
    /\ holds' = [holds EXCEPT ![t] = FALSE]
    /\ kind' = [kind EXCEPT ![t] = "none"]
    /\ exitWhy' = [exitWhy EXCEPT ![t] = "none"]
    /\ calls' = [calls EXCEPT ![t] = 0]
    /\ UNCHANGED <<rec, activeIds, state, idx, upd, cur, cancelReq,
                   stopVars, usedIds>>
    /\ UNCHANGED auxVars

\* cleanup_completed_conversations, lines 319-332: the ids whose task is done
\* leave _active_conversations; the call has no suspension point
CleanupCompleted(w) ==
    LET completed_ids == {c \in active[w] : pc[<<w, c>>] = "done"} IN
    /\ completed_ids # {}
    /\ active' = [active EXCEPT ![w] = @ \ completed_ids]
    /\ UNCHANGED <<storeVars, sem, taskVars, stopVars, histVars>>
    /\ UNCHANGED auxVars

\* the expiry of the lock key, 30 s after it was set
LockExpire(c) ==
    /\ lock[c]
    /\ lock' = [lock EXCEPT ![c] = FALSE]
    /\ UNCHANGED <<rec, activeIds, mgrVars, taskVars, stopVars, histVars>>
    /\ UNCHANGED auxVars

\* stop_conversation, lines 307-309: task.cancel()
Stop(w, c) ==
    LET t == <<w, c>> IN
    /\ c \in active[w]
    /\ spc[t] = "idle"
    /\ cancelReq' = [cancelReq EXCEPT ![t] = @ \/ pc[t] # "done"]
    /\ spc' = [spc EXCEPT ![t] = "read"]
    /\ UNCHANGED <<storeVars, mgrVars, pc, state, idx, upd, cur, kind,
                   scur, histVars>>
    /\ UNCHANGED auxVars

\* stop_conversation, line 312: the read of update_conversation_state;
\* returned tells whether the call of stop_conversation ends with this step
StopReadStep(t, ok, returned) ==
    LET r == IF ok THEN rec[t[2]] ELSE NoRec IN
    /\ spc[t] = "read"
    /\ IF r = NoRec
       THEN /\ spc' = [spc EXCEPT ![t] = "idle"]
            /\ UNCHANGED scur
       ELSE /\ spc' = [spc EXCEPT ![t] = "write"]
            /\ scur' = [scur EXCEPT ![t] = Kept(r, StoppedUpdates)]
    /\ returned = (r = NoRec)
    /\ UNCHANGED <<storeVars, mgrVars, taskVars, histVars, published,
                   ttlVars, clientVars, busVars, svcVars>>

StopRead(t, ok) ==
    /\ \E returned \in BOOLEAN : StopReadStep(t, ok, returned)
    /\ UNCHANGED stopRet

\* StopRead with the return of stop_conversation written to the history
StopReadNoted(t, ok) ==
    \E returned \in BOOLEAN :
        /\ StopReadStep(t, ok, returned)
        /\ stopRet' = [stopRet EXCEPT ![t] = @ \/ returned]

\* stop_conversation, lines 312-316: the merge and the SET of the status
\* stopped; returned tells whether the call of stop_conversation ends with
\* this step
StopWriteStep(t, ok, returned) ==
    LET new == DictUpdate(scur[t], StoppedUpdates) IN
    /\ spc[t] = "write"
    /\ IF ok /\ _validate_conversation_state(new)
       THEN /\ rec' = [rec EXCEPT ![t[2]] = new]
            /\ spc' = [spc EXCEPT ![t] = "sadd"]
       ELSE /\ UNCHANGED rec
            /\ spc' = [spc EXCEPT ![t] = "idle"]
    /\ returned = ~ (ok /\ _validate_conversation_state(new))
    /\ scur' = [scur EXCEPT ![t] = NoRec]
    /\ UNCHANGED <<lock, activeIds, mgrVars, taskVars, histVars, published,
                   ttlVars, clientVars, busVars, svcVars>>

\* stop_conversation: the SADD of the save, after which the call returns True
StopSaddStep(t, ok) ==
    /\ spc[t] = "sadd"
    /\ activeIds' = IF ok THEN activeIds \cup {t[2]} ELSE activeIds
    /\ spc' = [spc EXCEPT ![t] = "idle"]
    /\ UNCHANGED <<rec, lock, scur, mgrVars, taskVars, histVars, published,
                   ttlVars, clientVars, busVars, svcVars>>

StopWrite(t, ok) ==
    /\ \E returned \in BOOLEAN : StopWriteStep(t, ok, returned)
    /\ UNCHANGED stopRet

\* StopWrite with the return of stop_conversation written to the history
StopWriteNoted(t, ok) ==
    \E returned \in BOOLEAN :
        /\ StopWriteStep(t, ok, returned)
        /\ stopRet' = [stopRet EXCEPT ![t] = @ \/ returned]

StopSadd(t, ok) ==
    /\ StopSaddStep(t, ok)
    /\ UNCHANGED stopRet

\* StopSadd with the return of stop_conversation written to the history
StopSaddNoted(t, ok) ==
    /\ StopSaddStep(t, ok)
    /\ stopRet' = [stopRet EXCEPT ![t] = TRUE]

\* CancelledError raised in the task at the point where it is suspended;
\* landed: the store command that was in flight took effect on the server
CancelDeliver(t, landed) ==
    LET w == t[1]
        c == t[2]
    IN
    /\ cancelReq[t]
    /\ pc[t] \in {"start", "lock", "get_init", "llm", "upd_read",
                  "upd_write", "upd_sadd", "reload", "release"}
    /\ cancelReq' = [cancelReq EXCEPT ![t] = FALSE]
    /\ IF pc[t] = "start"
       THEN /\ pc' = [pc EXCEPT ![t] = "done"]
            /\ UNCHANGED <<storeVars, sem, state, idx, upd, cur, kind,
                           holds, calls, exitWhy>>
       ELSE IF pc[t] = "release"
       THEN /\ pc' = [pc EXCEPT ![t] = "done"]
            /\ lock' = [lock EXCEPT ![c] = IF landed THEN FALSE ELSE @]
            /\ sem' = [sem EXCEPT ![w] = @ + 1]
            /\ holds' = [holds EXCEPT ![t] = FALSE]
            /\ kind' = [kind EXCEPT ![t] = "none"]
            /\ exitWhy' = [exitWhy EXCEPT ![t] = "none"]
            /\ calls' = [calls EXCEPT ![t] = 0]
            /\ UNCHANGED <<rec, activeIds, state, idx, upd, cur>>
       ELSE /\ GotoRelease(t, "cancelled")
            /\ lock' = [lock EXCEPT ![c] =
                          IF pc[t] = "lock" /\ landed THEN TRUE ELSE @]
            /\ rec' = [rec EXCEPT ![c] =
                         IF /\ pc[t] = "upd_write" /\ landed
                            /\ _validate_conversation_state(
                                  DictUpdate(cur[t], upd[t]))
                         THEN DictUpdate(cur[t], upd[t]) ELSE @]
            /\ activeIds' = IF pc[t] = "upd_sadd" /\ landed
                            THEN activeIds \cup {c} ELSE activeIds
            /\ calls' = [calls EXCEPT ![t] = IF pc[t] = "llm" THEN @ + 1 ELSE @]
            /\ UNCHANGED <<sem, holds>>
    /\ UNCHANGED <<active, stopVars, usedIds>>
    /\ UNCHANGED auxVars

\* ------------------------------------------------------------ specification
Next ==
    \/ \E w \in Starters, c \in Convs, ok \in BOOLEAN : Start(w, c, ok)
    \/ \E t \in Tasks, ok \in BOOLEAN : NewSadd(t, ok)
    \/ \E t \in Tasks, ok \in BOOLEAN : NewSend(t, ok)
    \/ \E w \in Workers, c \in Convs : Resume(w, c)
    \/ \E t \in Tasks : Enter(t)
    \/ \E t \in Tasks, ok \in BOOLEAN : AcquireLock(t, ok)
    \/ \E t \in Tasks, ok \in BOOLEAN, timedOut \in BOOLEAN :
          GetInitial(t, ok, timedOut)
    \/ \E t \in Tasks, ok \in BOOLEAN, content \in ContentChoices,
          tok \in TokenChoices : LLMCall(t, ok, content, tok, FALSE)
    \/ \E t \in Tasks, ok \in BOOLEAN : UpdRead(t, ok)
    \/ \E t \in Tasks, ok \in BOOLEAN : UpdWrite(t, ok)
    \/ \E t \in Tasks, ok \in BOOLEAN : UpdSadd(t, ok)
    \/ \E t \in Tasks, ok \in BOOLEAN, timedOut \in BOOLEAN :
          Reload(t, ok, timedOut)
    \/ \E t \in Tasks, ok \in BOOLEAN : Release(t, ok)
    \/ \E w \in Workers : CleanupCompleted(w)
    \/ \E c \in Convs : LockExpire(c)
    \/ \E w \in Workers, c \in Convs : Stop(w, c)
    \/ \E t \in Tasks, ok \in BOOLEAN : StopRead(t, ok)
    \/ \E t \in Tasks, ok \in BOOLEAN : StopWrite(t, ok)
    \/ \E t \in Tasks, ok \in BOOLEAN : StopSadd(t, ok)
    \/ \E t \in Tasks, landed \in BOOLEAN : CancelDeliver(t, landed)

Spec == Init /\ [][Next]_vars

\* Spec with the returns of stop_conversation recorded in stopRet.  A call of
\* stop_conversation acts only on a registered id, and an id stays registered
\* after its task has ended only when an earlier stop cancelled the task, so
\* the first call that returns is always one on a running conversation.
StopNext ==
    \/ \E w \in Starters, c \in Convs, ok \in BOOLEAN : Start(w, c, ok)
    \/ \E t \in Tasks, ok \in BOOLEAN : NewSadd(t, ok)
    \/ \E t \in Tasks, ok \in BOOLEAN : NewSend(t, ok)
    \/ \E w \in Workers, c \in Convs : Resume(w, c)
    \/ \E t \in Tasks : Enter(t)
    \/ \E t \in Tasks, ok \in BOOLEAN : AcquireLock(t, ok)
    \/ \E t \in Tasks, ok \in BOOLEAN, timedOut \in BOOLEAN :
          GetInitial(t, ok, timedOut)
    \/ \E t \in Tasks, ok \in BOOLEAN, content \in ContentChoices,
          tok \in TokenChoices : LLMCall(t, ok, content, tok, FALSE)
    \/ \E t \in Tasks, ok \in BOOLEAN : UpdRead(t, ok)
    \/ \E t \in Tasks, ok \in BOOLEAN : UpdWrite(t, ok)
    \/ \E t \in Tasks, ok \in BOOLEAN : UpdSadd(t, ok)
    \/ \E t \in Tasks, ok \in BOOLEAN, timedOut \in BOOLEAN :
          Reload(t, ok, timedOut)
    \/ \E t \in Tasks, ok \in BOOLEAN : Release(t, ok)
    \/ \E w \in Workers : CleanupCompleted(w)
    \/ \E c \in Convs : LockExpire(c)
    \/ \E w \in Workers, c \in Convs : Stop(w, c)
    \/ \E t \in Tasks, ok \in BOOLEAN : StopReadNoted(t, ok)
    \/ \E t \in Tasks, ok \in BOOLEAN : StopWriteNoted(t, ok)
    \/ \E t \in Tasks, ok \in BOOLEAN : StopSaddNoted(t, ok)
    \/ \E t \in Tasks, landed \in BOOLEAN : CancelDeliver(t, landed)

StopSpec == Init /\ [][StopNext]_vars

\* ------------------------------------------------- the order of the turns
\* The managers run with max_turns = TurnLimit, so that a turn is appended
\* to a list that holds turns already; the steps are those of Next.

TurnNext ==
    \/ \E w \in Starters, c \in Convs, ok \in BOOLEAN : Start(w, c, ok)
    \/ \E t \in Tasks, ok \in BOOLEAN : NewSadd(t, ok)
    \/ \E t \in Tasks, ok \in BOOLEAN : NewSend(t, ok)
    \/ \E w \in Workers, c \in Convs : Resume(w, c)
    \/ \E t \in Tasks : Enter(t)
    \/ \E t \in Tasks, ok \in BOOLEAN : AcquireLock(t, ok)
    \/ \E t \in Tasks, ok \in BOOLEAN, timedOut \in BOOLEAN :
          GetInitialWith(TurnLimit, MinTurns, t, ok, timedOut)
    \/ \E t \in Tasks, ok \in BOOLEAN, content \in ContentChoices,
          tok \in TokenChoices : LLMCall(t, ok, content, tok, FALSE)
    \/ \E t \in Tasks, ok \in BOOLEAN : UpdRead(t, ok)
    \/ \E t \in Tasks, ok \in BOOLEAN : UpdWrite(t, ok)
    \/ \E t \in Tasks, ok \in BOOLEAN : UpdSadd(t, ok)
    \/ \E t \in Tasks, ok \in BOOLEAN, timedOut \in BOOLEAN :
          ReloadWith(TurnLimit, MinTurns, t, ok, timedOut)
    \/ \E t \in Tasks, ok \in BOOLEAN : Release(t, ok)
    \/ \E w \in Workers : CleanupCompleted(w)
    \/ \E c \in Convs : LockExpire(c)
    \/ \E w \in Workers, c \in Convs : Stop(w, c)
    \/ \E t \in Tasks, ok \in BOOLEAN : StopRead(t, ok)
    \/ \E t \in Tasks, ok \in BOOLEAN : StopWrite(t, ok)
    \/ \E t \in Tasks, ok \in BOOLEAN : StopSadd(t, ok)
    \/ \E t \in Tasks, landed \in BOOLEAN : CancelDeliver(t, landed)

TurnSpec == Init /\ [][TurnNext]_vars

\* ------------------------------------------------- the lock key with its TTL
\* One conversation's lock key on a store whose clock advances in seconds.
\* A worker calls acquire_conversation_lock and then, as the finally block of
\* _process_conversation does after either answer, release_conversation_lock;
\* it may die at any point.

\* SET lock "locked" NX without EX: the key never expires
TAcquireNoExpiry(w, ok) ==
    /\ lockUser[w].st = "idle"
    /\ IF ok /\ lockKey.ttl = 0
       THEN /\ lockKey' = [lockKey EXCEPT !.ttl = -1, !.by = w]
            /\ lockUser' = [lockUser EXCEPT ![w] =
                               [st |-> "holding", acq |-> "true"]]
       ELSE /\ lockUser' = [lockUser EXCEPT ![w] =
                               [st |-> "refused",
                                acq |-> IF ok THEN "false" ELSE "error"]]
            /\ UNCHANGED lockKey
    /\ UNCHANGED <<loopVars, clientVars, svcVars, busVars>>

\* acquire_conversation_lock: SET lock "locked" NX EX timeout; True when the
\* key was set, False when it exists or the store raised
TAcquire(w, ok) ==
    /\ lockUser[w].st = "idle"
    /\ IF ok /\ lockKey.ttl = 0
       THEN /\ lockKey' = [lockKey EXCEPT !.ttl = LockTimeout, !.by = w]
            /\ lockUser' = [lockUser EXCEPT ![w] =
                               [st |-> "holding", acq |-> "true"]]
       ELSE /\ lockUser' = [lockUser EXCEPT ![w] =
                               [st |-> "refused",
                                acq |-> IF ok THEN "false" ELSE "error"]]
            /\ UNCHANGED lockKey
    /\ UNCHANGED <<loopVars, clientVars, svcVars, busVars>>

\* release_conversation_lock: DEL lock, whoever set it
TRelease(w, ok) ==
    /\ lockUser[w].st \in {"holding", "refused"}
    /\ lockUser' = [lockUser EXCEPT ![w].st = "idle"]
    /\ IF ok
       THEN lockKey' = [lockKey EXCEPT !.ttl = 0, !.by = "none"]
       ELSE UNCHANGED lockKey
    /\ UNCHANGED <<loopVars, clientVars, svcVars, busVars>>

\* the worker process dies; it makes no further call
Die(w) ==
    /\ lockUser[w].st \notin {"dead", "dead_holding"}
    /\ lockUser' = [lockUser EXCEPT ![w].st =
                       IF @ = "holding" /\ lockKey.by = w /\ lockKey.ttl # 0
                       THEN "dead_holding" ELSE "dead"]
    /\ UNCHANGED <<loopVars, clientVars, svcVars, busVars, lockKey>>

\* one second passes on the store; a key whose time is used up is removed
Tick ==
    /\ lockKey.ttl > 0
    /\ lockKey' = IF lockKey.ttl = 1
                  THEN [ttl |-> 0, by |-> "none", expiredOf |-> lockKey.by]
                  ELSE [lockKey EXCEPT !.ttl = @ - 1]
    /\ UNCHANGED <<loopVars, clientVars, svcVars, busVars, lockUser>>

LockNext ==
    \/ \E w \in Workers, ok \in BOOLEAN : TAcquire(w, ok)
    \/ \E w \in Workers, ok \in BOOLEAN : TRelease(w, ok)
    \/ \E w \in Workers : Die(w)
    \/ Tick

LockInit == InitOver(Convs, Tasks, {"lock"})

LockSpec == LockInit /\ [][LockNext]_vars /\ WF_vars(Tick)

\* ------------------------------------------------------- the LLM client
\* One BaseLLMClient shared by the callers of generate_response.  An attempt
\* is one execution of the decorated function body: it runs without
\* suspension from the rate check to the call of _make_request, and again
\* from the answer of _make_request to its return or raise.

\* _check_rate_limit, lines 64-68: the tokens inside the window
PruneTokens(tokens, current_time) ==
    LET window_start == current_time - rate_limit_window_seconds
    IN SelectSeq(tokens, LAMBDA token_time : token_time > window_start)

\* the limit test with > in place of >=
UnderLimitOffByOne(tokens) ==
    ~ (Len(tokens) > rate_limit_requests_per_minute)

\* _check_rate_limit, lines 71-72
UnderLimit(tokens) ==
    ~ (Len(tokens) >= rate_limit_requests_per_minute)

\* _check_rate_limit on the client cl: the client after the call, which
\* returns True exactly when the pruned tokens are under the limit
CheckRateLimit(cl) ==
    LET pruned == PruneTokens(cl._rate_limit_tokens, cl.now)
    IN IF UnderLimit(pruned)
       THEN [cl EXCEPT !._rate_limit_tokens = Append(pruned, cl.now),
                       !.accepted[cl.now] = @ + 1]
       ELSE [cl EXCEPT !._rate_limit_tokens = pruned]

\* the reset with >= in place of >
ResetIfTimedOutEarly(cl) ==
    IF /\ cl._circuit_breaker_open
       /\ cl.now - cl._circuit_breaker_last_failure
             >= circuit_breaker_timeout_seconds
    THEN [cl EXCEPT !._circuit_breaker_open = FALSE,
                    !._circuit_breaker_failures = 0]
    ELSE cl

\* _check_circuit_breaker, lines 83-87: the reset after the timeout
ResetIfTimedOut(cl) ==
    IF /\ cl._circuit_breaker_open
       /\ cl.now - cl._circuit_breaker_last_failure
             > circuit_breaker_timeout_seconds
    THEN [cl EXCEPT !._circuit_breaker_open = FALSE,
                    !._circuit_breaker_failures = 0]
    ELSE cl

\* _record_failure opening the breaker with > in place of >=
RecordFailureOffByOne(cl) ==
    [cl EXCEPT !._circuit_breaker_failures = @ + 1,
               !._circuit_breaker_last_failure = cl.now,
               !._circuit_breaker_open =
                   IF cl._circuit_breaker_failures + 1
                         > cl.settings.circuit_breaker_failure_threshold
                   THEN TRUE ELSE @]

\* _record_failure
RecordFailure(cl) ==
    [cl EXCEPT !._circuit_breaker_failures = @ + 1,
               !._circuit_breaker_last_failure = cl.now,
               !._circuit_breaker_open =
                   IF cl._circuit_breaker_failures + 1
                         >= cl.settings.circuit_breaker_failure_threshold
                   THEN TRUE ELSE @]

\* _record_success; resetFrom notes the count that was reset
RecordSuccess(cl) ==
    [cl EXCEPT !._circuit_breaker_failures = 0,
               !.resetFrom = IF cl._circuit_breaker_failures > @
                             THEN cl._circuit_breaker_failures ELSE @]

\* wait_exponential(multiplier=1, min=1, max=10) after the given attempt
RetryWait(n) ==
    LET result == 2 ^ (n - 1)
        capped == IF result < wait_max THEN result ELSE wait_max
    IN IF capped > wait_min THEN capped ELSE wait_min

\* retry_if_exception_type with every Exception in place of the two classes
RetryableAny(result) == result \in {"client_error", "error"}

\* retry_if_exception_type((aiohttp.ClientError, asyncio.TimeoutError))
Retryable(result) == result = "client_error"

\* the caller whose call of generate_response is over after the attempts made
CallOver(made, how) ==
    [pc |-> "idle", attempt |-> made, wakeAt |-> 0, outcome |-> how,
     probe |-> FALSE]

\* generate_response, lines 116-127, run on the client cl by a caller in the
\* state ck: rate check, breaker check, then the request is sent; a refusal
\* raises, is recorded as a failure and, not being a ClientError or
\* TimeoutError, is not retried.  The client and the caller after it.
Attempted(cl, ck) ==
    LET number == IF ck.pc = "idle" THEN 1 ELSE ck.attempt + 1
        under == UnderLimit(PruneTokens(cl._rate_limit_tokens, cl.now))
        limited == CheckRateLimit(cl)
        checked == ResetIfTimedOut(limited)
    IN IF ~under
       THEN [client |-> RecordFailure(limited),
             caller |-> CallOver(number - 1, "rate_limited")]
       ELSE IF checked._circuit_breaker_open
       THEN [client |-> RecordFailure(checked),
             caller |-> CallOver(number - 1, "circuit_open")]
       ELSE [client |-> checked,
             caller |-> [pc |-> "request", attempt |-> number,
                         wakeAt |-> 0, outcome |-> "sent",
                         probe |-> /\ limited._circuit_breaker_open
                                   /\ ~checked._circuit_breaker_open]]

\* generate_response, lines 129-148, and the retry decision of the
\* decorator, for the request of a caller in the state ck that ends with
\* result: the client and the caller after it
Ended(cl, ck, result) ==
    IF result = "ok"
    THEN [client |-> RecordSuccess(cl),
          caller |-> CallOver(ck.attempt, "success")]
    ELSE IF result = "cancelled"
    THEN [client |-> cl, caller |-> CallOver(ck.attempt, "cancelled")]
    ELSE [client |-> RecordFailure(cl),
          caller |-> IF Retryable(result) /\ ck.attempt < stop_after_attempt
                     THEN [ck EXCEPT !.pc = "backoff",
                                     !.wakeAt = cl.now + RetryWait(ck.attempt),
                                     !.outcome = result,
                                     !.probe = FALSE]
                     ELSE CallOver(ck.attempt, result)]

\* a caller may start an attempt: its first, or the next after its wait
MayAttempt(k) ==
    /\ caller[k].pc \in {"idle", "backoff"}
    /\ caller[k].pc = "backoff" => client.now >= caller[k].wakeAt

\* generate_response can end with result: the request of an attempt ends, or
\* the calling task is cancelled while the decorator sleeps between two
\* attempts (CancelledError leaves the call, the client is not touched)
MayEnd(k, result) ==
    \/ caller[k].pc = "request"
    \/ caller[k].pc = "backoff" /\ result = "cancelled"

\* one attempt of generate_response starts
AttemptStart(k) ==
    LET after == Attempted([client EXCEPT !.nAttempts = @ + 1], caller[k])
    IN
    /\ MayAttempt(k)
    /\ client.nAttempts < MaxAttempts
    /\ client' = after.client
    /\ caller' = [caller EXCEPT ![k] = after.caller]
    /\ UNCHANGED <<loopVars, ttlVars, svcVars, busVars>>

\* the request of an attempt ends, or the wait before the next attempt is
\* cancelled
RequestEnd(k, result) ==
    LET after == Ended(client, caller[k], result) IN
    /\ MayEnd(k, result)
    /\ client' = after.client
    /\ caller' = [caller EXCEPT ![k] = after.caller]
    /\ UNCHANGED <<loopVars, ttlVars, svcVars, busVars>>

\* one second passes on the client's clock
ClockTick ==
    /\ client.now < MaxTime
    /\ client' = [client EXCEPT !.now = @ + 1]
    /\ UNCHANGED <<loopVars, ttlVars, svcVars, busVars, caller>>

ClientNext ==
    \/ \E k \in Callers : AttemptStart(k)
    \/ \E k \in Callers, result \in RequestResults : RequestEnd(k, result)
    \/ ClockTick

ClientInit == InitOver(Convs, Tasks, {"client"})

ClientSpec == ClientInit /\ [][ClientNext]_vars

\* the client constructed with the default breaker threshold
RetryInit == InitOver(Convs, Tasks, {"client", "retry"})

RetrySpec == RetryInit /\ [][ClientNext]_vars

\* The client under load, with no end of time: calls keep arriving, time
\* passes and every request ends.  The client keeps no history here, and its
\* times are kept relative to the clock: once the clock reads MaxTime a
\* second moves every stored time back by one instead, a time of 0 standing
\* for every time at least MaxTime seconds ago.  MaxTime is longer than the
\* rate window and than the breaker timeout, so the tests of lines 66 and 84
\* read such a time as the code reads the time itself.

Earlier(time) == IF time > 0 THEN time - 1 ELSE 0

\* the failure count is compared with the threshold only (line 97): the
\* counts from the threshold on are kept as the threshold
NoHistory(cl) ==
    [cl EXCEPT !.accepted = [u \in 0..MaxTime |-> 0],
               !.nAttempts = 0,
               !.resetFrom = 0,
               !._circuit_breaker_failures =
                   IF @ > cl.settings.circuit_breaker_failure_threshold
                   THEN cl.settings.circuit_breaker_failure_threshold ELSE @]

\* a call of generate_response arrives, or a waiting caller tries again
LoadAttempt(k) ==
    LET after == Attempted(client, caller[k]) IN
    /\ MayAttempt(k)
    /\ client' = NoHistory(after.client)
    /\ caller' = [caller EXCEPT ![k] = after.caller]
    /\ UNCHANGED <<loopVars, ttlVars, svcVars, busVars>>

\* the request of an attempt ends, or the wait before the next attempt is
\* cancelled
LoadRequestEnd(k, result) ==
    LET after == Ended(client, caller[k], result) IN
    /\ MayEnd(k, result)
    /\ client' = NoHistory(after.client)
    /\ caller' = [caller EXCEPT ![k] = after.caller]
    /\ UNCHANGED <<loopVars, ttlVars, svcVars, busVars>>

\* one second passes
LoadTick ==
    /\ IF client.now < MaxTime
       THEN /\ client' = [client EXCEPT !.now = @ + 1]
            /\ UNCHANGED caller
       ELSE /\ client' =
                 [client EXCEPT
                     !._rate_limit_tokens =
                         [i \in DOMAIN @ |-> Earlier(@[i])],
                     !._circuit_breaker_last_failure = Earlier(@)]
            /\ caller' = [k \in Callers |->
                             [caller[k] EXCEPT !.wakeAt = Earlier(@)]]
    /\ UNCHANGED <<loopVars, ttlVars, svcVars, busVars>>

LoadNext ==
    \/ \E k \in Callers : LoadAttempt(k)
    \/ \E k \in Callers, result \in RequestResults : LoadRequestEnd(k, result)
    \/ LoadTick

\* time passes, calls keep arriving and every request ends
LoadSpec ==
    /\ ClientInit
    /\ [][LoadNext]_vars
    /\ WF_vars(LoadTick)
    /\ WF_vars(\E k \in Callers : LoadAttempt(k))
    /\ \A k \in Callers :
          WF_vars(\E result \in RequestResults : LoadRequestEnd(k, result))

\* ------------------------------------------------- the producer and the
\* dispatch of consumed messages
\* One KafkaProducer, used by direct callers of send_event and by the
\* KafkaEventRouter for its dead letters, and one stream of consumed
\* messages, each given to route_message or to _process_message and then
\* committed.

\* what _producer.send can end with: the record is sent, KafkaError, another
\* exception (of the serializer, a timeout)
SendResults == {"ok", "kafka_error", "other_error"}
\* what a handler can end with: True, False, no value, an exception
HandlerResults == {"true", "false", "none", "raise"}
\* the key argument of send_event: absent, empty, a conversation id
KeyChoices == {"none", "", "c1"}
Dispatchers == {"router", "consumer"}

\* message.value as route_message reads it: bytes of a JSON text in UTF-8,
\* bytes of a JSON text in UTF-16, bytes of a UTF-8 text that is no JSON,
\* bytes that are no text in any encoding
MessageValues == {"utf8_json", "utf16_json", "utf8_text", "bad_bytes"}

\* json.loads(message.value), line 35, returns; it raises otherwise
Loads(value) == value \in {"utf8_json", "utf16_json"}

\* message.value.decode(), line 59, returns; it raises otherwise
Decodes(value) == value \in {"utf8_json", "utf8_text"}

\* send_event, line 41: for attempt in range(self.max_retries)
InRange(attempt) == attempt < max_retries

\* the test of line 52 one attempt early
LastAttemptEarly(attempt) == ~ (attempt < max_retries - 2)

\* send_event, lines 52-56: the failed attempt was the last one
LastAttempt(attempt) == ~ (attempt < max_retries - 1)

\* send_event, lines 44-45: the key goes into the kwargs when it is truthy
KwargsKey(key) == IF key \in {"none", ""} THEN "none" ELSE key

\* send_event is over with r ("true", "false", "raised"); when it was called
\* by _send_to_dlq (line 65), whose result and exception are dropped,
\* route_message returns False (line 47)
SendOver(k, r) ==
    IF k.purpose = "dlq"
    THEN [k EXCEPT !.ret = r, !.pc = "routed", !.result = "false",
                   !.dlqSent = IF r = "true" THEN @ \cup {k.msg} ELSE @]
    ELSE [k EXCEPT !.ret = r, !.pc = "idle"]

\* send_event is entered, lines 38-41
SendBegin(k, purpose, key) ==
    LET called == [k EXCEPT !.purpose = purpose, !.key = KwargsKey(key),
                            !.attempt = 0, !.sends = 0,
                            !.lastSend = "none", !.ret = "none"]
    IN IF ~k._producer THEN SendOver(called, "raised")
       ELSE IF ~InRange(0) THEN SendOver(called, "false")
       ELSE [called EXCEPT !.pc = "send"]

\* KafkaProducer.start
ProducerStart ==
    /\ kafka.pc = "idle"
    /\ ~kafka._producer
    /\ kafka' = [kafka EXCEPT !._producer = TRUE]
    /\ UNCHANGED <<loopVars, ttlVars, clientVars, topicq, svcVars>>

\* a caller calls send_event(topic, event_data, key)
SendEvent(key) ==
    /\ kafka.pc = "idle"
    /\ kafka' = SendBegin(kafka, "event", key)
    /\ UNCHANGED <<loopVars, ttlVars, clientVars, topicq, svcVars>>

\* one await self._producer.send(**kwargs) and what follows it, lines 47-56
SendAttempt(result) ==
    LET sent == [kafka EXCEPT !.sends = @ + 1, !.lastSend = result] IN
    /\ kafka.pc = "send"
    /\ kafka' = IF result = "ok" THEN SendOver(sent, "true")
                ELSE IF result = "other_error" THEN SendOver(sent, "raised")
                ELSE IF LastAttempt(kafka.attempt) THEN SendOver(sent, "false")
                ELSE [sent EXCEPT !.pc = "sleep"]
    /\ UNCHANGED <<loopVars, ttlVars, clientVars, topicq, svcVars>>

\* the sleep of line 53 is over: the next round of the loop, or line 58
SendWake ==
    LET next == [kafka EXCEPT !.attempt = @ + 1] IN
    /\ kafka.pc = "sleep"
    /\ kafka' = IF InRange(next.attempt) THEN [next EXCEPT !.pc = "send"]
                ELSE SendOver(next, "false")
    /\ UNCHANGED <<loopVars, ttlVars, clientVars, topicq, svcVars>>

\* the except branch of route_message, lines 44-47, for the message of k:
\* _send_to_dlq builds the envelope (lines 56-62) and calls send_event; an
\* exception of message.value.decode() leaves _send_to_dlq and route_message
SendToDlq(k) ==
    LET noted == [k EXCEPT !.failed = @ \cup {k.msg},
                           !.dlqCalled = @ \cup {k.msg}]
    IN IF Decodes(k.value) THEN SendBegin(noted, "dlq", "none")
       ELSE [noted EXCEPT !.pc = "routed", !.result = "raised"]

\* the next message is given to route_message (lines 26-35, 40-42) or to
\* _process_message (lines 50-51, 58); route_message parses the value before
\* it calls the handler, _process_message passes the message on as it is
Dispatch(via, hasHandler, value) ==
    LET got == [kafka EXCEPT !.msg = @ + 1, !.via = via, !.value = value,
                             !.result = "none"]
    IN
    /\ kafka.pc = "idle"
    /\ kafka.msg < MaxMessages
    /\ kafka' = IF ~hasHandler
                THEN [got EXCEPT !.pc = "routed",
                                 !.result = IF via = "router" THEN "false"
                                            ELSE "true"]
                ELSE IF via = "router" /\ ~Loads(value) THEN SendToDlq(got)
                ELSE [got EXCEPT !.pc = "handler"]
    /\ UNCHANGED <<loopVars, ttlVars, clientVars, topicq, svcVars>>

\* the handler ends: route_message returns its result or, when it raised,
\* calls _send_to_dlq (lines 38-39, 44-47); _process_message returns the
\* result, True for no value, False when it raised (lines 53-57)
HandlerEnd(res) ==
    LET noted == [kafka EXCEPT !.failed = IF res \in {"false", "raise"}
                                          THEN @ \cup {kafka.msg} ELSE @]
    IN
    /\ kafka.pc = "handler"
    /\ kafka' =
         IF kafka.via = "consumer"
         THEN [noted EXCEPT !.pc = "routed",
                            !.result = IF res = "raise" THEN "false"
                                       ELSE IF res = "none" THEN "true"
                                       ELSE res]
         ELSE IF res = "raise" THEN SendToDlq(kafka)
         ELSE [noted EXCEPT !.pc = "routed", !.result = res]
    /\ UNCHANGED <<loopVars, ttlVars, clientVars, topicq, svcVars>>

\* the dispatcher has returned: commit_offset(message), then the next
\* message; a dispatcher that raised has not returned
CommitOffset ==
    /\ kafka.pc = "routed"
    /\ kafka.result # "raised"
    /\ kafka' = [kafka EXCEPT !.committed = kafka.msg, !.pc = "idle"]
    /\ UNCHANGED <<loopVars, ttlVars, clientVars, topicq, svcVars>>

KafkaNext ==
    \/ ProducerStart
    \/ \E key \in KeyChoices : SendEvent(key)
    \/ \E result \in SendResults : SendAttempt(result)
    \/ SendWake
    \/ \E via \in Dispatchers, hasHandler \in BOOLEAN,
          value \in MessageValues : Dispatch(via, hasHandler, value)
    \/ \E res \in HandlerResults : HandlerEnd(res)
    \/ CommitOffset

KafkaInit == InitOver(Convs, Tasks, {"kafka"})

KafkaSpec == KafkaInit /\ [][KafkaNext]_vars

\* -------------------------------------------------------- the topic queue
\* The workers call get_topic_from_queue on the list topic_queue of the
\* shared store; a call is the LPOP on the store and, later, the return to
\* its caller.

\* what the LPOP of a call can end with: the store answers; it raises before
\* it has executed the command; the command is executed but the call raises
\* (the reply is lost, json.loads fails)
PopOutcomes == {"ok", "refused", "lost"}

\* RPOP in place of LPOP
rpop(q) == [value |-> q[Len(q)], rest |-> SubSeq(q, 1, Len(q) - 1)]

\* redis LPOP on a list that is not empty
lpop(q) == [value |-> Head(q), rest |-> Tail(q)]

\* get_topic_from_queue is called by worker w
QCall(w) ==
    /\ topicq.call[w] = "idle"
    /\ topicq' = [topicq EXCEPT !.call[w] = "lpop"]
    /\ UNCHANGED <<loopVars, ttlVars, clientVars, kafka, svcVars>>

\* the LPOP of w's call takes place on the store, lines 199-206; reply is
\* what the call will return, 0 for None
QPop(w, outcome) ==
    LET q == topicq.queue
        removes == outcome # "refused" /\ q # <<>>
    IN
    /\ topicq.call[w] = "lpop"
    /\ topicq' = [topicq EXCEPT
                    !.call[w] = "reply",
                    !.queue = IF removes THEN lpop(q).rest ELSE @,
                    !.popped = IF removes THEN Append(@, lpop(q).value)
                               ELSE @,
                    !.sawEmpty = @ \/ (outcome = "ok" /\ q = <<>>),
                    !.reply[w] = IF outcome = "ok" /\ q # <<>>
                                 THEN lpop(q).value ELSE 0]
    /\ UNCHANGED <<loopVars, ttlVars, clientVars, kafka, svcVars>>

\* w's call returns
QReturn(w) ==
    /\ topicq.call[w] = "reply"
    /\ topicq' = [topicq EXCEPT
                    !.call[w] = "idle",
                    !.got[w] = IF topicq.reply[w] # 0
                               THEN Append(@, topicq.reply[w]) ELSE @,
                    !.returned = IF topicq.reply[w] # 0
                                 THEN Append(@, topicq.reply[w]) ELSE @]
    /\ UNCHANGED <<loopVars, ttlVars, clientVars, kafka, svcVars>>

QueueNext ==
    \/ \E w \in Workers : QCall(w)
    \/ \E w \in Workers, outcome \in PopOutcomes : QPop(w, outcome)
    \/ \E w \in Workers : QReturn(w)

QueueInit == InitOver(Convs, Tasks, {"queue"})

QueueSpec == QueueInit /\ [][QueueNext]_vars

\* ------------------------------------------- the semaphore of one manager
\* One manager starts the conversations of SemConvs on a healthy store; its
\* tasks run as in Spec (a turn may fail), no timeout occurs, and one of the
\* conversations may be stopped at any point.
\* the conversations that stop_conversation is called on
SemStopConvs == {"c2"}
SemStopTasks == {"w1"} \X SemStopConvs

SemNext ==
    \/ \E t \in SemTasks : Start(t[1], t[2], TRUE)
    \/ \E t \in SemTasks : NewSadd(t, TRUE)
    \/ \E t \in SemTasks : NewSend(t, TRUE)
    \/ \E t \in SemTasks : Enter(t)
    \/ \E t \in SemTasks : AcquireLock(t, TRUE)
    \/ \E t \in SemTasks : GetInitial(t, TRUE, FALSE)
    \/ \E t \in SemTasks, ok \in BOOLEAN, content \in ContentChoices,
          tok \in TokenChoices : LLMCall(t, ok, content, tok, FALSE)
    \/ \E t \in SemTasks : UpdRead(t, TRUE)
    \/ \E t \in SemTasks : UpdWrite(t, TRUE)
    \/ \E t \in SemTasks : UpdSadd(t, TRUE)
    \/ \E t \in SemTasks : Reload(t, TRUE, FALSE)
    \/ \E t \in SemTasks : Release(t, TRUE)
    \/ \E t \in SemStopTasks : Stop(t[1], t[2])
    \/ \E t \in SemTasks : StopRead(t, TRUE)
    \/ \E t \in SemTasks : StopWrite(t, TRUE)
    \/ \E t \in SemTasks : StopSadd(t, TRUE)
    \/ \E t \in SemTasks, landed \in BOOLEAN : CancelDeliver(t, landed)

\* construction with the ids of SemConvs in use
SemInit == InitOver(SemConvs, SemTasks, {})

SemSpec == SemInit /\ [][SemNext]_vars

\* ------------------------------------------- calls of the RedisStateManager
\* A maintenance client saves and deletes records and runs
\* cleanup_expired_conversations on the store of the conversations of
\* StoreConvs, while the conversation keys expire.  Each store command is one
\* step; the save, the delete and the cleanup run as three tasks, so their
\* commands interleave.

StoreConvs == {"c1", "c2"}
StoreTasks == {"w1"} \X StoreConvs

\* r without the field f
Without(r, f) == [k \in (DOMAIN r) \ {f} |-> r[k]]

\* a dict in the place of the list of turns
TurnsDict == [i \in {0} |-> "turn"]

\* the records save_conversation_state is called with: a well-formed one,
\* one for each required field that is missing, one whose turns is no list
SaveArgs(c) ==
    {InitialState(c),
     Without(InitialState(c), "conversation_id"),
     Without(InitialState(c), "topic"),
     Without(InitialState(c), "turns"),
     [InitialState(c) EXCEPT !.turns = TurnsDict]}

SaveOver(r) == [storeCall EXCEPT !.save.pc = "idle", !.save.ret = r]

\* save_conversation_state, lines 60-69: the validation
SaveCall(c, s) ==
    /\ storeCall.save.pc = "idle"
    /\ storeCall' =
         IF _validate_conversation_state(s)
         THEN [storeCall EXCEPT !.save = [pc |-> "set", c |-> c, arg |-> s,
                                          ret |-> "none"]]
         ELSE [storeCall EXCEPT !.save = [pc |-> "idle", c |-> c, arg |-> s,
                                          ret |-> "false"]]
    /\ UNCHANGED <<loopVars, ttlVars, clientVars, busVars, factory>>

\* line 72: SET conversation:{id}; a store error ends the call with False
SaveSet(ok) ==
    LET sv == storeCall.save IN
    /\ sv.pc = "set"
    /\ IF ok
       THEN /\ rec' = [rec EXCEPT ![sv.c] = sv.arg]
            /\ storeCall' = [storeCall EXCEPT !.save.pc = "sadd"]
       ELSE /\ UNCHANGED rec
            /\ storeCall' = SaveOver("false")
    /\ UNCHANGED <<lock, activeIds, mgrVars, taskVars, stopVars, histVars,
                   published, stopRet, ttlVars, clientVars, busVars, factory>>

\* lines 73-79: SADD active_conversations
SaveSadd(ok) ==
    LET sv == storeCall.save IN
    /\ sv.pc = "sadd"
    /\ IF ok
       THEN /\ activeIds' = activeIds \cup {sv.c}
            /\ storeCall' = SaveOver("true")
       ELSE /\ UNCHANGED activeIds
            /\ storeCall' = SaveOver("false")
    /\ UNCHANGED <<rec, lock, mgrVars, taskVars, stopVars, histVars,
                   published, stopRet, ttlVars, clientVars, busVars, factory>>

\* the conversation key of c expires (SET ... ex=conversation_ttl, line 72)
KeyExpire(c) ==
    /\ rec[c] # NoRec
    /\ rec' = [rec EXCEPT ![c] = NoRec]
    /\ UNCHANGED <<lock, activeIds, mgrVars, taskVars, stopVars, histVars,
                   published, stopRet, ttlVars, clientVars, busVars, svcVars>>

\* the loop of lines 258-267 goes on with the ids left, or the call returns
\* cleaned_count
CleanupGoOn(cl, ids, count, removed) ==
    IF ids = {}
    THEN {[pc |-> "idle", ids |-> {}, conv_id |-> "none",
           cleaned_count |-> count, ret |-> count, removed |-> removed]}
    ELSE {[pc |-> "exists", ids |-> ids \ {i}, conv_id |-> i,
           cleaned_count |-> count, ret |-> cl.ret, removed |-> removed]
            : i \in ids}

\* the except branch, lines 269-271
CleanupFailed(cl) ==
    [cl EXCEPT !.pc = "idle", !.ids = {}, !.conv_id = "none", !.ret = 0]

\* cleanup_expired_conversations is called, lines 251-256
CleanupCall ==
    /\ storeCall.cleanup.pc = "idle"
    /\ storeCall' = [storeCall EXCEPT !.cleanup =
                        [pc |-> "list", ids |-> {}, conv_id |-> "none",
                         cleaned_count |-> 0, ret |-> -1, removed |-> {}]]
    /\ UNCHANGED <<loopVars, ttlVars, clientVars, busVars, factory>>

\* list_active_conversations: SMEMBERS, the empty set on a store error
CleanupList(ok) ==
    LET cl == storeCall.cleanup
        conversation_ids == IF ok THEN activeIds ELSE {}
    IN
    /\ cl.pc = "list"
    /\ \E next \in CleanupGoOn(cl, conversation_ids, 0, {}) :
          storeCall' = [storeCall EXCEPT !.cleanup = next]
    /\ UNCHANGED <<loopVars, ttlVars, clientVars, busVars, factory>>

\* line 260: EXISTS conversation:{conv_id}
CleanupExists(ok) ==
    LET cl == storeCall.cleanup IN
    /\ cl.pc = "exists"
    /\ IF ~ok THEN storeCall' = [storeCall EXCEPT !.cleanup = CleanupFailed(cl)]
       ELSE IF rec[cl.conv_id] = NoRec
       THEN storeCall' = [storeCall EXCEPT !.cleanup.pc = "srem"]
       ELSE \E next \in CleanupGoOn(cl, cl.ids, cl.cleaned_count, cl.removed) :
               storeCall' = [storeCall EXCEPT !.cleanup = next]
    /\ UNCHANGED <<loopVars, ttlVars, clientVars, busVars, factory>>

\* lines 264-265: SREM active_conversations conv_id; cleaned_count += 1
CleanupSrem(ok) ==
    LET cl == storeCall.cleanup IN
    /\ cl.pc = "srem"
    /\ IF ok
       THEN /\ activeIds' = activeIds \ {cl.conv_id}
            /\ \E next \in CleanupGoOn(cl, cl.ids, cl.cleaned_count + 1,
                                       cl.removed \cup
                                          ({cl.conv_id} \cap activeIds)) :
                  storeCall' = [storeCall EXCEPT !.cleanup = next]
       ELSE /\ UNCHANGED activeIds
            /\ storeCall' = [storeCall EXCEPT !.cleanup = CleanupFailed(cl)]
    /\ UNCHANGED <<rec, lock, mgrVars, taskVars, stopVars, histVars,
                   published, stopRet, ttlVars, clientVars, busVars, factory>>

\* delete_conversation_state is called, lines 116-121
DeleteCall(c) ==
    /\ storeCall.delete.pc = "idle"
    /\ storeCall' = [storeCall EXCEPT !.delete =
                        [pc |-> "del", c |-> c, ret |-> "none"]]
    /\ UNCHANGED <<loopVars, ttlVars, clientVars, busVars, factory>>

\* line 123: DEL conversation:{id}; a store error ends the call with False
DeleteDel(ok) ==
    LET dl == storeCall.delete IN
    /\ dl.pc = "del"
    /\ IF ok
       THEN /\ rec' = [rec EXCEPT ![dl.c] = NoRec]
            /\ storeCall' = [storeCall EXCEPT !.delete.pc = "srem"]
       ELSE /\ UNCHANGED rec
            /\ storeCall' = [storeCall EXCEPT !.delete.pc = "idle",
                                              !.delete.ret = "false"]
    /\ UNCHANGED <<lock, activeIds, mgrVars, taskVars, stopVars, histVars,
                   published, stopRet, ttlVars, clientVars, busVars, factory>>

\* lines 124-130: SREM active_conversations; a store error ends the call
\* with False, the key stays deleted
DeleteSrem(ok) ==
    LET dl == storeCall.delete IN
    /\ dl.pc = "srem"
    /\ activeIds' = IF ok THEN activeIds \ {dl.c} ELSE activeIds
    /\ storeCall' = [storeCall EXCEPT !.delete.pc = "idle",
                                      !.delete.ret =
                                          IF ok THEN "true" ELSE "false"]
    /\ UNCHANGED <<rec, lock, mgrVars, taskVars, stopVars, histVars,
                   published, stopRet, ttlVars, clientVars, busVars, factory>>

StoreNext ==
    \/ \E c \in StoreConvs : \E s \in SaveArgs(c) : SaveCall(c, s)
    \/ \E ok \in BOOLEAN : SaveSet(ok)
    \/ \E ok \in BOOLEAN : SaveSadd(ok)
    \/ \E c \in StoreConvs : KeyExpire(c)
    \/ \E c \in StoreConvs : DeleteCall(c)
    \/ \E ok \in BOOLEAN : DeleteDel(ok)
    \/ \E ok \in BOOLEAN : DeleteSrem(ok)
    \/ CleanupCall
    \/ \E ok \in BOOLEAN : CleanupList(ok)
    \/ \E ok \in BOOLEAN : CleanupExists(ok)
    \/ \E ok \in BOOLEAN : CleanupSrem(ok)

StoreInit == InitOver(StoreConvs, StoreTasks, {"store"})

StoreSpec == StoreInit /\ [][StoreNext]_vars

\* --------------------------------------------------- the LLMClientFactory
\* The conversations of one worker call create_client in _process_turn and
\* keep the client for the time of generate_response; stop_all stops the
\* cached clients and empties the cache.  BaseLLMClient.start has no
\* suspension point, so create_client runs from its call to its return
\* without another task in between.

\* an instance is named by its provider and the number of its construction
Instance(name, n) == [provider |-> name, no |-> n]

\* the cache is never consulted
CachedNever(f, client_type) == FALSE

\* create_client, line 192
Cached(f, client_type) == client_type \in DOMAIN f._clients

\* create_client, lines 192-206: the factory after the call and, in field
\* given, the instance returned added to those returned for the name
Created(f, client_type) ==
    IF Cached(f, client_type)
    THEN [f EXCEPT !.given[client_type] = @ \cup {f._clients[client_type]}]
    ELSE LET new_client == Instance(client_type,
                                    Cardinality(f.made[client_type]) + 1)
         IN [f EXCEPT !._clients =
                         [n \in (DOMAIN @) \cup {client_type} |->
                             IF n = client_type THEN new_client ELSE @[n]],
                      !.made[client_type] = @ \cup {new_client},
                      !.given[client_type] = @ \cup {new_client}]

\* the instance the call of create_client returns
Returned(f, client_type) == Created(f, client_type)._clients[client_type]

\* _process_turn, line 183: caller k gets its client
CreateClient(k, client_type) ==
    /\ factory.held[k] = NoClient
    /\ Cached(factory, client_type)
          \/ Cardinality(factory.made[client_type]) < MaxInstances
    /\ factory' = [Created(factory, client_type) EXCEPT
                      !.held[k] = Returned(factory, client_type)]
    /\ UNCHANGED <<loopVars, ttlVars, clientVars, busVars, storeCall>>

\* _process_turn, line 203: generate_response of caller k is over
ClientDone(k) ==
    /\ factory.held[k] # NoClient
    /\ factory' = [factory EXCEPT !.held[k] = NoClient]
    /\ UNCHANGED <<loopVars, ttlVars, clientVars, busVars, storeCall>>

\* self._clients.clear(); the instances returned are counted from here
Cleared(f) == [f EXCEPT !._clients = [n \in {} |-> 0],
                        !.given = [n \in ProviderNames |-> {}],
                        !.left = 0, !.size = 0]

\* stop_all is called: the loop over the values of the cache is entered
StopAllCall ==
    LET n == Cardinality(DOMAIN factory._clients) IN
    /\ factory.left = 0
    /\ factory' = IF n = 0 THEN Cleared(factory)
                  ELSE [factory EXCEPT !.left = n, !.size = n]
    /\ UNCHANGED <<loopVars, ttlVars, clientVars, busVars, storeCall>>

\* an await client.stop() of stop_all is over: the iterator of the dict
\* raises RuntimeError when the cache has changed its size, and the cache is
\* not cleared then
StopAllStep ==
    /\ factory.left > 0
    /\ factory' =
         IF Cardinality(DOMAIN factory._clients) # factory.size
         THEN [factory EXCEPT !.left = 0, !.size = 0]
         ELSE IF factory.left = 1 THEN Cleared(factory)
         ELSE [factory EXCEPT !.left = @ - 1]
    /\ UNCHANGED <<loopVars, ttlVars, clientVars, busVars, storeCall>>

FactoryNext ==
    \/ \E k \in Callers, name \in ProviderNames : CreateClient(k, name)
    \/ \E k \in Callers : ClientDone(k)
    \/ StopAllCall
    \/ StopAllStep

FactoryInit == InitOver(Convs, Tasks, {"factory"})

FactorySpec == FactoryInit /\ [][FactoryNext]_vars

\* ------------------------------------------- one conversation, its settings
\* One manager with the default settings (max_turns 10, min_turns 5, timeout
\* 300 s) starts one conversation and runs it to its end; the store answers
\* every command, a provider call succeeds or fails, and the contents of the
\* answers vary.  Every provider call takes d seconds and nothing else takes
\* time, so the time since start_time, and since the lock key was set, is d
\* times the calls of the run.

ScenarioContents == {"plain", "in conclusion", "long"}
ScenarioTasks == Starters \X Convs

\* line 132: time.time() - start_time > self.timeout_seconds
TimedOut(t, d) == calls[t] * d > conversation_timeout_seconds

\* the lock key, set with EX 30 when the run began (redis_state.py 165-170)
\* and never renewed, is gone at the end of the provider call t makes next
LockRanOut(t, d) == (calls[t] + 1) * d > LockTimeout

\* the tokens of the answer of the provider that answers t's next call
ScenarioTokens(t) ==
    IF ModelAt(idx[t]) = "anthropic" THEN tokens_anthropic ELSE tokens_google

ScenarioNext(d) ==
    \/ \E w \in Starters, c \in Convs : Start(w, c, TRUE)
    \/ \E t \in ScenarioTasks : NewSadd(t, TRUE)
    \/ \E t \in ScenarioTasks : NewSend(t, TRUE)
    \/ \E t \in ScenarioTasks : Enter(t)
    \/ \E t \in ScenarioTasks : AcquireLock(t, TRUE)
    \/ \E t \in ScenarioTasks :
          GetInitialWith(max_conversation_turns, min_conversation_turns,
                         t, TRUE, TimedOut(t, d))
    \/ \E t \in ScenarioTasks, ok \in BOOLEAN, content \in ScenarioContents :
          LLMCall(t, ok, content, ScenarioTokens(t), LockRanOut(t, d))
    \/ \E t \in ScenarioTasks : UpdRead(t, TRUE)
    \/ \E t \in ScenarioTasks : UpdWrite(t, TRUE)
    \/ \E t \in ScenarioTasks : UpdSadd(t, TRUE)
    \/ \E t \in ScenarioTasks :
          ReloadWith(max_conversation_turns, min_conversation_turns,
                     t, TRUE, TimedOut(t, d))
    \/ \E t \in ScenarioTasks : Release(t, TRUE)

\* provider calls that take no time
ScenarioSpec == Init /\ [][ScenarioNext(0)]_vars

\* every provider call takes provider_call_seconds
TimeSpec == Init /\ [][ScenarioNext(provider_call_seconds)]_vars

\* the terminal statuses that C3 and C8 name
TerminalStatus == {"completed", "failed", "timeout", "stopped"}
\* the statuses that C7 names
SpecStatus == {"initializing", "in_progress"} \cup TerminalStatus

TypeOK ==
    /\ \A c \in Convs : rec[c] = NoRec \/ "turns" \in DOMAIN rec[c]
    /\ \A w \in Workers : sem[w] \in 0..MaxConcurrent


\* ------------------------------------------------------------- properties
Stored(c) == rec[c] # NoRec
Status(c) == rec[c].metadata.status
Holders(c) == {t \in Tasks : t[2] = c /\ holds[t]}

\* C1: at any instant at most one worker holds the lock of a conversation:
\* between a successful acquire_conversation_lock and the end of that run of
\* _process_conversation no other acquire of the same lock succeeds.
C1_AtMostOneHolder ==
    \A c \in Convs : Cardinality(Holders(c)) <= 1

\* C2: a run of _process_conversation whose acquire_conversation_lock returned
\* false ends without writing the record and without deleting the lock key.
C2_RefusedRunLeavesLock ==
    [][\A t \in Tasks :
          (pc[t] = "release" /\ exitWhy[t] = "lock_refused" /\ pc'[t] = "done")
             => (lock'[t[2]] = lock[t[2]] /\ rec'[t[2]] = rec[t[2]])]_vars

\* C3: once the stored status is completed, failed, timeout or stopped, no
\* later step changes it.
C3_TerminalStatusIsFinal ==
    [][\A c \in Convs :
          (Stored(c) /\ Status(c) \in TerminalStatus)
             => (rec'[c] # NoRec /\ rec'[c].metadata.status = Status(c))]_vars

\* C4: every stored record has metadata.total_turns equal to the length of
\* its turns list.
C4_TotalTurnsIsLength ==
    \A c \in Convs :
        Stored(c) => /\ "total_turns" \in DOMAIN rec[c].metadata
                     /\ rec[c].metadata.total_turns = Len(rec[c].turns)

\* C5: in every stored record the i-th turn has turn_number i, whichever
\* workers wrote the turns and in whatever order their writes landed.
C5_TurnNumbersInOrder ==
    \A c \in Convs :
        Stored(c) => \A i \in 1..Len(rec[c].turns) :
                        rec[c].turns[i].turn_number = i

\* C5 witness: TurnLimit turns are stored while two workers are inside
\* _process_conversation of that conversation, both having acquired the lock
\* and both having made an LLM call for a turn; the second turn is the first
\* call of its run (both turns come from the model a run begins with), so it
\* was appended by another run than the one that wrote the first turn.
C5_Witness ==
    \E c \in Convs :
        /\ Stored(c)
        /\ Len(rec[c].turns) = TurnLimit
        /\ Len(rec[c].turns) >= 2
        /\ Cardinality(Holders(c)) = 2
        /\ \A t \in Holders(c) : calls[t] >= 1
        /\ rec[c].turns[2].model = rec[c].turns[1].model
        /\ \A i \in 1..Len(rec[c].turns) : rec[c].turns[i].turn_number = i

\* C6: every stored record has metadata.total_tokens equal to the sum of the
\* tokens of its turns (a missing count is 0).
C6_TotalTokensIsSum ==
    \A c \in Convs :
        Stored(c) =>
            DictGet(rec[c].metadata, "total_tokens", 0) = SumTokens(rec[c].turns)

\* C7: a record is created with status initializing, a committed turn sets
\* the status in_progress, and the status is always one of initializing,
\* in_progress, completed, failed, timeout, stopped.
C7_StatusLifecycle ==
    /\ [](\A c \in Convs : Stored(c) => Status(c) \in SpecStatus)
    /\ [][\A c \in Convs :
            (~Stored(c) /\ rec'[c] # NoRec)
               => rec'[c].metadata.status = "initializing"]_vars
    /\ [][\A c \in Convs :
            (Stored(c) /\ rec'[c] # NoRec
               /\ Len(rec'[c].turns) = 1 /\ Len(rec[c].turns) = 0)
               => rec'[c].metadata.status = "in_progress"]_vars

\* C8: a started conversation ends with a terminal status: when every run of
\* _process_conversation and every stop_conversation call on it has returned,
\* its record is stored with status completed, failed, timeout or stopped.
C8_FinishedIsTerminal ==
    \A c \in usedIds :
        (\A w \in Workers : pc[<<w, c>>] \in {"idle", "done", "raised"}
                            /\ spc[<<w, c>>] = "idle")
           => (Stored(c) /\ Status(c) \in TerminalStatus)

\* C9: one run of _process_conversation makes at most max_turns LLM calls.
C9_AtMostMaxTurnsCalls ==
    \A t \in Tasks : calls[t] <= MaxTurns

\* C10: a record never holds more than max_turns turns, and the completion
\* write of a run whose loop ended because len(turns) reached max_turns
\* stores status completed with completion_reason max_turns.
C10_MaxTurnsCompletion ==
    /\ [](\A c \in Convs : Stored(c) => Len(rec[c].turns) <= MaxTurns)
    /\ [][\A t \in Tasks :
            (/\ pc[t] = "upd_write" /\ kind[t] = "complete"
             /\ exitWhy[t] = "max_turns"
             /\ pc'[t] = "upd_sadd"
             /\ rec'[t[2]] = DictUpdate(cur[t], upd[t]))
               => (/\ rec'[t[2]].metadata.status = "completed"
                   /\ DictGet(rec'[t[2]].metadata, "completion_reason", "none")
                         = "max_turns")]_vars

\* the reasons for which the turn loop is left on a terminal condition
TerminalWhy == {"max_turns", "timeout", "natural_ending", "turn_failed",
                "reload_failed"}

\* the step of task t is a store write of an update call of its run
TaskWrites(t) ==
    /\ pc[t] = "upd_write"
    /\ pc'[t] # "upd_write"
    /\ rec'[t[2]] = DictUpdate(cur[t], upd[t])

\* the step is the store write of a stop_conversation call of t's manager
StopWrites(t) ==
    /\ spc[t] = "write"
    /\ spc'[t] = "sadd"
    /\ rec'[t[2]] = DictUpdate(scur[t], StoppedUpdates)

\* the worker of t holds the lock of the conversation: the key exists and
\* the only run that acquired it and has not ended is the worker's
OwnsLock(t) ==
    /\ lock[t[2]]
    /\ Holders(t[2]) = {t}

\* C11: when a turn fails (the LLM client raises or the update of the turn
\* returns false) the run makes no further LLM call, and its completion write
\* stores status failed with completion_reason error.
C11_TurnFailureEndsFailed ==
    /\ [][\A t \in Tasks :
            (exitWhy[t] = "turn_failed" /\ pc'[t] # "done")
               => calls'[t] = calls[t]]_vars
    /\ [][\A t \in Tasks :
            (kind[t] = "complete" /\ exitWhy[t] = "turn_failed" /\ TaskWrites(t))
               => (/\ rec'[t[2]].metadata.status = "failed"
                   /\ DictGet(rec'[t[2]].metadata, "completion_reason", "none")
                         = "error")]_vars

\* C12: whenever a run leaves the turn loop on a terminal condition (max
\* turns, timeout, natural ending or repetition, error), a
\* conversation.completed event of that conversation has been published by
\* the time the run reaches its finally block.
C12_CompletedEventPublished ==
    \A t \in Tasks :
        (pc[t] = "release" /\ exitWhy[t] \in TerminalWhy)
           => \E e \in published : /\ e.topic = "conversation.completed"
                                   /\ e.conversation_id = t[2]

\* C13: every write to a stored record (turn write, completion write, status
\* write of stop_conversation) is made by a worker that holds the lock of the
\* conversation at the moment of the write.
C13_WritesUnderLock ==
    [][\A t \in Tasks :
          (Stored(t[2]) /\ (TaskWrites(t) \/ StopWrites(t))) => OwnsLock(t)]_vars

\* C14: every run of _process_conversation that acquired the lock ends with
\* the lock key deleted, on every exit path, a cancellation at any suspension
\* point included (a release whose DEL the store answers with an error is the
\* one path left aside: there the key stays until it expires).
C14_RunEndsWithLockDeleted ==
    [][\A t \in Tasks :
          (holds[t] /\ pc[t] # "done" /\ pc'[t] = "done")
             => (\/ ~lock'[t[2]]
                 \/ (pc[t] = "release" /\ ~cancelReq[t]))]_vars

\* C18: after stop_conversation returned True for a running conversation the
\* stored status is stopped and stays stopped, and no turn is appended to the
\* record, wherever the task was suspended when it was cancelled.
C18_StoppedStaysStopped ==
    [][\A t \in Tasks :
          stopRet'[t]
             => (/\ rec'[t[2]] # NoRec
                 /\ rec'[t[2]].metadata.status = "stopped"
                 /\ (stopRet[t] /\ Stored(t[2]))
                       => Len(rec'[t[2]].turns) <= Len(rec[t[2]].turns))]_vars

\* the key exists and was set by w
KeyOf(w) == lockKey.ttl # 0 /\ lockKey.by = w

\* C15: if a worker dies while it holds the lock and never calls release, the
\* key set by it goes away (it expires LockTimeout seconds after it was set),
\* and an acquire_conversation_lock that the store answers while no key
\* exists returns True and sets a key with the full timeout.
C15_DeadHoldersLockExpires ==
    /\ \A w \in Workers :
          (lockUser[w].st = "dead_holding" /\ KeyOf(w)) ~> ~KeyOf(w)
    /\ [][\A w \in Workers :
            (/\ lockUser[w].st = "idle"
             /\ lockUser'[w].st \in {"holding", "refused"}
             /\ lockUser'[w].acq # "error"
             /\ lockKey.ttl = 0)
               => (/\ lockUser'[w] = [st |-> "holding", acq |-> "true"]
                   /\ lockKey'.ttl = LockTimeout
                   /\ lockKey'.by = w)]_vars

\* C15 witness: w1 died holding the lock, its key expired, and w2 holds a key
\* it acquired afterwards.
C15_Witness ==
    /\ lockUser["w1"].st = "dead_holding"
    /\ lockKey.expiredOf = "w1"
    /\ lockUser["w2"] = [st |-> "holding", acq |-> "true"]
    /\ KeyOf("w2")

\* the suspension points inside async with self._conversation_semaphore
Inside == {"lock", "get_init", "llm", "upd_read", "upd_write", "upd_sadd",
           "reload", "release"}
InsideOf(w) == {t[2] : t \in {u \in DOMAIN pc : u[1] = w /\ pc[u] \in Inside}}
WaitingOf(w) == {t[2] : t \in {u \in DOMAIN pc : u[1] = w /\ pc[u] = "start"}}

\* C16: at any instant at most max_concurrent_conversations conversations of
\* one manager are inside the processing section of _process_conversation,
\* and a task enters the section only when fewer than that many are inside.
C16_AtMostCmaxInside ==
    /\ [](\A w \in Workers : Cardinality(InsideOf(w)) <= MaxConcurrent)
    /\ [][\A t \in DOMAIN pc :
            (pc[t] = "start" /\ pc'[t] \in Inside)
               => Cardinality(InsideOf(t[1])) < MaxConcurrent]_vars

\* C16 witness: one conversation of the manager has finished, as many as the
\* semaphore admits are inside the processing section, one of them with a
\* turn stored, and another task waits at the semaphore.
C16_Witness ==
    /\ Cardinality(InsideOf("w1")) = MaxConcurrent
    /\ WaitingOf("w1") # {}
    /\ \E c \in SemConvs : /\ pc[<<"w1", c>>] = "done"
                           /\ Stored(c)
                           /\ Status(c) = "completed"
    /\ \E c \in InsideOf("w1") : Stored(c) /\ Len(rec[c].turns) >= 1

\* C17: the number of registered active conversations of a manager
\* (get_active_conversation_count) never exceeds max_concurrent_conversations.
C17_ActiveCountAtMostCmax ==
    \A w \in Workers : Cardinality(active[w]) <= MaxConcurrent

RECURSIVE SumOver(_, _)
SumOver(f, S) ==
    IF S = {} THEN 0
    ELSE LET u == CHOOSE x \in S : TRUE IN f[u] + SumOver(f, S \ {u})

\* the requests accepted in the window of rate_limit_window_seconds that
\* ends at t: after t - W, up to t
Recent(t) ==
    SumOver(client.accepted,
            {u \in 0..MaxTime : u > t - rate_limit_window_seconds /\ u <= t})

\* the step is an attempt of generate_response, which begins with the rate
\* check
RateChecked == client'.nAttempts = client.nAttempts + 1

\* C19: a _check_rate_limit made while R requests accepted in the last W
\* seconds refuses and records no token; one made while fewer are inside the
\* window (the oldest has aged out) accepts and records the request; no
\* window of W seconds ever holds more than R accepted requests.
C19_RateLimitWindow ==
    /\ [](\A t \in 0..MaxTime : Recent(t) <= rate_limit_requests_per_minute)
    /\ [][RateChecked =>
            IF Recent(client.now) >= rate_limit_requests_per_minute
            THEN /\ client'.accepted = client.accepted
                 /\ Len(client'._rate_limit_tokens)
                       <= Len(client._rate_limit_tokens)
                 /\ \E k \in Callers : /\ caller[k].pc # "request"
                                       /\ caller'[k].pc = "idle"
                                       /\ caller'[k].outcome = "rate_limited"
            ELSE /\ client'.accepted =
                       [client.accepted EXCEPT ![client.now] = @ + 1]
                 /\ client'._rate_limit_tokens # <<>>
                 /\ client'._rate_limit_tokens[Len(client'._rate_limit_tokens)]
                       = client.now
                 /\ \A k \in Callers :
                       caller'[k].outcome = "rate_limited"
                          => caller[k].outcome = "rate_limited"
         ]_vars

\* C19 witness: a caller was refused by the rate limit, the window that ends
\* now is full, and more than R requests were accepted in all, so a request
\* was accepted after a token had aged out.
C19_Witness ==
    /\ \E k \in Callers : caller[k].outcome = "rate_limited"
    /\ Recent(client.now) = rate_limit_requests_per_minute
    /\ SumOver(client.accepted, 0..MaxTime) > rate_limit_requests_per_minute

\* C20: the breaker opens exactly when its failure count reaches F: while it
\* is closed the count is below F, the step that opens it takes the count
\* from F-1 to F, a failure that takes the count to F or more leaves it open,
\* and a successful call sets the count to 0 and does not open the breaker.
C20_BreakerOpensAtThreshold ==
    /\ [](~client._circuit_breaker_open
            => client._circuit_breaker_failures
                  < circuit_breaker_failure_threshold)
    /\ [][(~client._circuit_breaker_open /\ client'._circuit_breaker_open)
            => /\ client._circuit_breaker_failures
                     = circuit_breaker_failure_threshold - 1
               /\ client'._circuit_breaker_failures
                     = circuit_breaker_failure_threshold]_vars
    /\ [][(/\ client'._circuit_breaker_failures
                 = client._circuit_breaker_failures + 1
           /\ client'._circuit_breaker_failures
                 >= circuit_breaker_failure_threshold)
            => client'._circuit_breaker_open]_vars
    /\ [][\A k \in Callers :
            (caller[k].outcome = "sent" /\ caller'[k].outcome = "success")
               => (/\ client'._circuit_breaker_failures = 0
                   /\ client'._circuit_breaker_open
                         = client._circuit_breaker_open)]_vars

\* C20 witness: a success has reset a count of F-1 failures, and later the
\* F-th failure in a row has opened the breaker.
C20_Witness ==
    /\ client.resetFrom = circuit_breaker_failure_threshold - 1
    /\ client._circuit_breaker_open
    /\ client._circuit_breaker_failures = circuit_breaker_failure_threshold

\* the step is an attempt that ends at once, refused with the given reasons,
\* and no request is made to the provider
RefusedWith(reasons) ==
    /\ \E k \in Callers : /\ caller[k].pc # "request"
                          /\ caller'[k].pc = "idle"
                          /\ caller'[k].outcome \in reasons
    /\ \A k \in Callers : caller'[k].pc = "request" => caller[k].pc = "request"

\* the breaker is open and no more than T seconds have passed since the
\* last recorded failure
OpenWithinTimeout ==
    /\ client._circuit_breaker_open
    /\ client.now - client._circuit_breaker_last_failure
          <= circuit_breaker_timeout_seconds

\* C21 as stated: while the breaker is open and no more than T seconds have
\* passed since the last failure, every attempt of generate_response fails
\* with circuit_open and no request is made to the provider.
C21_OpenFailsWithCircuitOpen ==
    [][(RateChecked /\ OpenWithinTimeout)
          => RefusedWith({"circuit_open"})]_vars

\* C21 amended: while the breaker is open and no more than T seconds have
\* passed since the last failure, every attempt of generate_response fails
\* without a request to the provider: with rate_limited when the window of
\* the rate limiter is full, which is checked first, and with circuit_open
\* otherwise.
C21_OpenFailsFast ==
    [][(RateChecked /\ OpenWithinTimeout)
          => IF Recent(client.now) >= rate_limit_requests_per_minute
             THEN RefusedWith({"rate_limited"})
             ELSE RefusedWith({"circuit_open"})]_vars

\* C21 witness: F requests in a row failed on a fresh client, every attempt
\* passed the rate limiter, and attempt F+1 was refused with circuit_open.
C21_Witness ==
    /\ client.nAttempts = circuit_breaker_failure_threshold + 1
    /\ SumOver(client.accepted, 0..MaxTime)
          = circuit_breaker_failure_threshold + 1
    /\ client._circuit_breaker_open
    /\ client._circuit_breaker_failures
          = circuit_breaker_failure_threshold + 1
    /\ \E k \in Callers : caller[k].outcome = "circuit_open"

\* C22: once the breaker is open, an attempt made T seconds or more after the
\* last failure (and admitted by the rate limiter) is passed through to the
\* provider, and if that attempt succeeds the breaker is closed and the
\* failure count is 0.
C22_ProbeAfterTimeout ==
    /\ [][(/\ RateChecked
           /\ client._circuit_breaker_open
           /\ client.now - client._circuit_breaker_last_failure
                 >= circuit_breaker_timeout_seconds
           /\ Recent(client.now) < rate_limit_requests_per_minute)
            => \E k \in Callers : /\ caller[k].pc # "request"
                                  /\ caller'[k].pc = "request"]_vars
    /\ [][\A k \in Callers :
            (/\ caller[k].pc = "request"
             /\ caller[k].probe
             /\ caller'[k].outcome = "success")
               => (/\ ~client'._circuit_breaker_open
                   /\ client'._circuit_breaker_failures = 0)]_vars

\* C23: if the attempt that was let through after the T-second wait fails,
\* the breaker is open again.
C23_FailedProbeReopens ==
    [][\A k \in Callers :
         (/\ caller[k].pc = "request"
          /\ caller[k].probe
          /\ caller'[k].outcome \in {"client_error", "error"})
            => client'._circuit_breaker_open]_vars

\* C24: one call of generate_response makes at most 3 provider attempts; a
\* further attempt is made only after a ClientError or TimeoutError of the
\* attempt before it, every other failure ends the call in the attempt where
\* it occurs; a success at the third attempt ends the call with a result
\* after exactly 3 attempts; and on a fresh client, whose breaker threshold
\* is above 2 and whose rate limiter admits the attempt, the third attempt
\* after two such failures is sent to the provider.
C24_AtMostThreeAttempts ==
    /\ [](\A k \in Callers :
            /\ caller[k].attempt <= stop_after_attempt
            /\ caller[k].pc = "backoff"
                  => (/\ caller[k].outcome = "client_error"
                      /\ caller[k].attempt < stop_after_attempt)
            /\ caller[k].outcome \in {"error", "rate_limited", "circuit_open"}
                  => caller[k].pc = "idle")
    /\ [][\A k \in Callers :
            (/\ caller[k].pc # "request"
             /\ caller'[k].pc = "request"
             /\ caller'[k].attempt > 1)
               => (/\ caller[k].pc = "backoff"
                   /\ caller'[k].attempt = caller[k].attempt + 1)]_vars
    /\ [][\A k \in Callers :
            (/\ caller[k].pc = "request"
             /\ caller[k].attempt = stop_after_attempt
             /\ caller'[k].outcome = "success")
               => (/\ caller'[k].pc = "idle"
                   /\ caller'[k].attempt = stop_after_attempt)]_vars
    /\ [][\A k \in Callers :
            (/\ client.settings.circuit_breaker_failure_threshold > 2
             /\ Recent(client.now) < rate_limit_requests_per_minute
             /\ RateChecked
             /\ client.nAttempts = 2
             /\ caller[k].pc = "backoff"
             /\ caller[k].attempt = 2
             /\ caller'[k] # caller[k])
               => (/\ caller'[k].pc = "request"
                   /\ caller'[k].attempt = 3)]_vars

\* C24 witness: the only call made on a fresh client has ended with a result
\* at its third attempt, after two attempts that failed and were retried as
\* soon as their waits were over; the breaker has stayed closed and the
\* success has reset the count of the two failures.
C24_Witness ==
    /\ client.nAttempts = stop_after_attempt
    /\ client.now = RetryWait(1) + RetryWait(2)
    /\ ~client._circuit_breaker_open
    /\ client.resetFrom = 2
    /\ client._circuit_breaker_failures = 0
    /\ \E k \in Callers : /\ caller[k].pc = "idle"
                          /\ caller[k].outcome = "success"
                          /\ caller[k].attempt = stop_after_attempt

\* C25: send_event makes at most max_retries sends; it returns True at the
\* first send that succeeds and makes no send after it; it returns False only
\* after max_retries sends, the last of which failed with KafkaError, and it
\* does return False when the send number max_retries fails so.
C25_AtMostMaxRetries ==
    /\ [](/\ kafka.sends <= max_retries
          /\ kafka.ret = "true" => kafka.lastSend = "ok"
          /\ kafka.lastSend = "ok" => kafka.pc \notin {"send", "sleep"}
          /\ kafka.ret = "false" => (/\ kafka.sends = max_retries
                                     /\ kafka.lastSend = "kafka_error"))
    /\ [][(kafka.pc = "send" /\ kafka'.sends = kafka.sends + 1)
            => (/\ kafka'.lastSend = "ok" => kafka'.ret = "true"
                /\ (kafka'.lastSend = "kafka_error"
                    /\ kafka'.sends = max_retries) => kafka'.ret = "false"
                /\ (kafka'.lastSend = "kafka_error"
                    /\ kafka'.sends < max_retries) => kafka'.pc = "sleep")]_vars

\* C25 witness: a caller's send_event has returned False after max_retries
\* sends that failed.
C25_Witness ==
    /\ kafka.purpose = "event"
    /\ kafka.pc = "idle"
    /\ kafka.ret = "false"
    /\ kafka.sends = max_retries

\* C26: send_event never ends with an exception.
C26_SendEventNeverRaises == kafka.ret # "raised"

\* C27: once the dispatcher of a message whose handler failed, by returning
\* False or by raising, has returned, the message was given to _send_to_dlq.
C27_FailedHandlerDeadLetters ==
    \A m \in kafka.failed :
        (m < kafka.msg \/ kafka.pc \in {"routed", "idle"})
            => m \in kafka.dlqCalled

\* C28: an offset is committed only when the dispatcher of its message has
\* returned, and the committed offset covers a message whose handler failed
\* only if the dead-letter envelope of that message was sent successfully.
C28_CommitAfterDeadLetter ==
    /\ [](\A m \in kafka.failed :
            m <= kafka.committed => m \in kafka.dlqSent)
    /\ [][kafka'.committed # kafka.committed
            => (kafka.pc = "routed" /\ kafka'.committed = kafka.msg)]_vars

\* C29: every event the managers publish carries the id of its conversation
\* as its key.
C29_KeyedByConversation == \A e \in published : e.key = e.conversation_id

\* the topics of s, as a set
Range(s) == {s[i] : i \in DOMAIN s}
\* s follows the order of the queue and repeats nothing
InQueueOrder(s) == \A i, j \in DOMAIN s : i < j => s[i] < s[j]
\* w's call is at its LPOP in this step
Pops(w) == topicq.call[w] = "lpop" /\ topicq'.call[w] = "reply"

\* C30 as stated: every topic removed from the queue is returned by exactly
\* one call, once the call that removed it is over; the topics are returned
\* in the order of the queue; a call on the empty queue returns absent and
\* changes nothing.
C30_ExactlyOnceFifo ==
    /\ [](\A i \in DOMAIN topicq.popped :
            (\A w \in Workers : topicq.call[w] # "reply")
               => Cardinality({j \in DOMAIN topicq.returned :
                      topicq.returned[j] = topicq.popped[i]}) = 1)
    /\ [](InQueueOrder(topicq.returned))
    /\ [][\A w \in Workers :
            (Pops(w) /\ topicq.queue = <<>>)
               => (/\ topicq'.reply[w] = 0
                   /\ topicq'.queue = <<>>
                   /\ topicq'.popped = topicq.popped)]_vars

\* C30, amended: topics are removed from the head, one call each; a call
\* returns only the topic its own LPOP removed, so no topic is returned by
\* two calls and each worker gets its topics in queue order; a call whose
\* LPOP finds the queue empty returns absent and changes nothing.
C30_AtMostOnceFifo ==
    /\ [](/\ topicq.popped \o topicq.queue = QueuedTopics
          /\ Range(topicq.returned) \subseteq Range(topicq.popped)
          /\ \A i, j \in DOMAIN topicq.returned :
                i # j => topicq.returned[i] # topicq.returned[j]
          /\ \A w \in Workers : InQueueOrder(topicq.got[w]))
    /\ [][\A w \in Workers :
            Pops(w)
               => IF topicq.queue = <<>>
                  THEN /\ topicq'.reply[w] = 0
                       /\ topicq'.queue = <<>>
                       /\ topicq'.popped = topicq.popped
                  ELSE topicq'.reply[w] # 0
                          => (/\ topicq'.reply[w] = Head(topicq.queue)
                              /\ topicq'.queue = Tail(topicq.queue))]_vars

\* C30 witness: every queued topic was returned, both workers got some, and
\* a call has found the queue empty.
C30_Witness ==
    /\ topicq.queue = <<>>
    /\ topicq.sawEmpty
    /\ Len(topicq.returned) = MaxTopics
    /\ \A w \in Workers : topicq.got[w] # <<>> /\ topicq.call[w] = "idle"

\* the record has the three required fields and its turns is a list
WellFormed(s) ==
    /\ "conversation_id" \in DOMAIN s
    /\ "topic" \in DOMAIN s
    /\ "turns" \in DOMAIN s
    /\ IsList(s.turns)

\* C31: a call of save_conversation_state with a record that lacks
\* conversation_id, topic or turns, or whose turns is not a list, returns
\* False in the step of the call, issues no store command, and leaves the
\* conversation keys and the set active_conversations as they are.
C31_InvalidSaveChangesNothing ==
    /\ [](storeCall.save.pc \in {"set", "sadd"}
             => WellFormed(storeCall.save.arg))
    /\ [][(/\ storeCall.save.pc = "idle"
           /\ storeCall'.save # storeCall.save
           /\ ~WellFormed(storeCall'.save.arg))
             => (/\ storeCall'.save.pc = "idle"
                 /\ storeCall'.save.ret = "false"
                 /\ rec' = rec
                 /\ activeIds' = activeIds)]_vars

\* C31 witness: the save of a record whose turns is a dict has returned False
\* for a conversation that has a stored record and is in the active set.
C31_Witness ==
    /\ storeCall.save.pc = "idle"
    /\ storeCall.save.ret = "false"
    /\ storeCall.save.arg # NoRec
    /\ "turns" \in DOMAIN storeCall.save.arg
    /\ ~IsList(storeCall.save.arg.turns)
    /\ rec[storeCall.save.c] # NoRec
    /\ storeCall.save.c \in activeIds

\* C36: a step of cleanup_expired_conversations removes an id from
\* active_conversations only when the conversation key of the id does not
\* exist; when the call returns, no id whose key is missing and that was in
\* the set at the call is left in it, and the value returned is the number of
\* ids the call has removed.
C36_CleanupRemovesExpired ==
    /\ [][\A c \in StoreConvs :
            (/\ storeCall.cleanup.pc = "srem"
             /\ storeCall'.cleanup # storeCall.cleanup
             /\ c \in activeIds
             /\ c \notin activeIds')
               => rec[c] = NoRec]_vars
    /\ [][(storeCall.cleanup.pc # "idle" /\ storeCall'.cleanup.pc = "idle")
            => storeCall'.cleanup.ret
                  = Cardinality(storeCall'.cleanup.removed)]_vars

\* C35 as stated: a factory constructs at most one client per provider name.
C35_OneClientPerName ==
    \A n \in ProviderNames : Cardinality(factory.made[n]) <= 1

\* C35, amended: while the cache is not emptied by stop_all, all calls of
\* create_client for one name return the same instance, the one in the
\* cache; a call that finds the name in the cache constructs nothing and a
\* call that does not constructs exactly one instance.
C35_OneClientPerNameUntilStopAll ==
    /\ [](\A n \in ProviderNames :
            /\ Cardinality(factory.given[n]) <= 1
            /\ factory.given[n] # {}
                  => (n \in DOMAIN factory._clients
                      /\ factory.given[n] = {factory._clients[n]}))
    /\ [][\A k \in Callers :
            (factory.held[k] = NoClient /\ factory'.held[k] # NoClient)
               => LET n == factory'.held[k].provider IN
                  /\ factory'.held[k] = factory'._clients[n]
                  /\ IF n \in DOMAIN factory._clients
                     THEN /\ factory'.made = factory.made
                          /\ factory'._clients = factory._clients
                     ELSE factory'.made[n]
                             = factory.made[n] \cup {factory'.held[k]}]_vars

\* C35 witness: two callers hold the same instance at the same time, got
\* from two calls of create_client for one name.
C35_Witness ==
    /\ factory.held["k1"] # NoClient
    /\ factory.held["k1"] = factory.held["k2"]
    /\ factory.made[factory.held["k1"].provider] = {factory.held["k1"]}

\* the run of t has written its completion and is about to release the lock
Completed(t) == pc[t] = "release" /\ kind[t] = "complete" /\ Stored(t[2])

\* C32: with every provider call taking provider_call_seconds (80) and a
\* timeout of 300 s, a run that ends on the timeout has stored exactly 3
\* turns, status completed and completion_reason timeout.
C32_TimeoutAfterThreeTurns ==
    \A t \in ScenarioTasks :
        (Completed(t) /\ exitWhy[t] = "timeout")
           => (/\ Len(rec[t[2]].turns) = 3
               /\ rec[t[2]].metadata.status = "completed"
               /\ DictGet(rec[t[2]].metadata, "completion_reason", "none")
                     = "timeout")

\* t evaluates the head of the loop in this step, on the record it has read
AtLoopHead(t) ==
    /\ pc[t] \in {"get_init", "reload"}
    /\ pc'[t] \in {"llm", "upd_read"}
    /\ Stored(t[2])
    /\ Len(rec[t[2]].turns) < max_conversation_turns

\* C33: at the head of the loop (below max_turns, no timeout) the run leaves
\* on a natural ending exactly when the record has at least min_turns turns
\* and its last turn contains a conclusion phrase, and goes on to the next
\* turn otherwise; a run that ends naturally after its seventh turn stores
\* total_turns 7 and completion_reason natural_ending.
C33_NaturalEndingExactly ==
    /\ [][\A t \in ScenarioTasks :
            AtLoopHead(t)
               => LET turns == rec[t[2]].turns IN
                  (exitWhy'[t] = "natural_ending")
                     <=> (/\ Len(turns) >= min_conversation_turns
                          /\ turns[Len(turns)].content
                                \in conclusion_phrases)]_vars
    /\ [][\A t \in ScenarioTasks :
            (AtLoopHead(t) /\ exitWhy'[t] # "natural_ending")
               => pc'[t] = "llm"]_vars
    /\ [](\A t \in ScenarioTasks :
            (/\ Completed(t) /\ exitWhy[t] = "natural_ending"
             /\ Len(rec[t[2]].turns) = 7)
               => (/\ calls[t] = 7
                   /\ rec[t[2]].metadata.total_turns = 7
                   /\ DictGet(rec[t[2]].metadata, "completion_reason", "none")
                         = "natural_ending"))

\* C34: turn k of a record comes from Provider-A (claude-3-sonnet) when k is
\* odd and from Provider-B (gemini-pro) when k is even; a run of 10
\* successful turns, A answering tokens_anthropic (50) and B tokens_google
\* (45) tokens, ends with total_turns 10, both models used, total_tokens 475
\* and completion_reason max_turns.
C34_AlternatingProviders ==
    \A t \in ScenarioTasks :
       /\ Stored(t[2])
             => \A k \in DOMAIN rec[t[2]].turns :
                   rec[t[2]].turns[k].model
                      = IF k % 2 = 1 THEN "claude-3-sonnet" ELSE "gemini-pro"
       /\ (Completed(t) /\ Len(rec[t[2]].turns) = max_conversation_turns)
             => LET metadata == rec[t[2]].metadata IN
                /\ exitWhy[t] = "max_turns"
                /\ metadata.total_turns = max_conversation_turns
                /\ metadata.models_used = {"claude-3-sonnet", "gemini-pro"}
                /\ metadata.total_tokens
                      = (max_conversation_turns \div 2)
                           * (tokens_anthropic + tokens_google)
                /\ DictGet(metadata, "completion_reason", "none")
                      = "max_turns"

\* C37: the step of _process_turn in which the LLM call fails changes no
\* conversation key and not the active set, and the run leaves the loop as
\* on a turn result of False; the record stays as the run read it.
C37_FailedTurnWritesNothing ==
    /\ [][\A t \in ScenarioTasks :
            (pc[t] = "llm" /\ pc'[t] # "llm" /\ kind'[t] # "turn")
               => (/\ rec' = rec
                   /\ activeIds' = activeIds
                   /\ exitWhy'[t] = "turn_failed")]_vars
    /\ [][\A t \in ScenarioTasks :
            (pc[t] = "llm" /\ pc'[t] # "llm" /\ kind'[t] # "turn")
               => rec'[t[2]] = state[t]]_vars

\* C37 witness: the third provider call of a run has failed and the record
\* holds the two turns written before it.
C37_Witness ==
    \E t \in ScenarioTasks :
        /\ pc[t] = "upd_read"
        /\ exitWhy[t] = "turn_failed"
        /\ calls[t] = 3
        /\ Len(rec[t[2]].turns) = 2
        /\ rec[t[2]].metadata.status = "in_progress"

\* C38: the turns list of a stored conversation only grows: no step removes
\* or replaces a stored turn, and every turn write of _process_turn that
\* changes the record extends the stored list by exactly one turn, for any
\* interleaving of the workers and stop_conversation calls on the record.
C38_TurnsOnlyGrow ==
    /\ [][\A c \in Convs :
            (rec[c] # NoRec /\ rec'[c] # NoRec)
               => /\ Len(rec'[c].turns) >= Len(rec[c].turns)
                  /\ \A k \in 1..Len(rec[c].turns) :
                        rec'[c].turns[k] = rec[c].turns[k]]_vars
    /\ [][\A t \in Tasks :
            (/\ pc[t] = "upd_write" /\ pc'[t] # "upd_write"
             /\ kind[t] = "turn"
             /\ rec[t[2]] # NoRec /\ rec'[t[2]] # rec[t[2]])
               => Len(rec'[t[2]].turns) = Len(rec[t[2]].turns) + 1]_vars

\* C40: a conversation whose task has finished or has been cancelled is not
\* in the in-process active set of its manager.
C40_FinishedNotActive ==
    \A t \in Tasks : pc[t] = "done" => t[2] \notin active[t[1]]

\* C39: an open breaker does not stay open forever under load: whenever the
\* breaker is open and no request is with the provider, calls keep arriving
\* and one of them is eventually passed through to the provider.
C39_OpenBreakerPassesACall ==
    []((/\ client._circuit_breaker_open
        /\ \A k \in Callers : caller[k].pc # "request")
           => <>(\E k \in Callers : caller[k].pc = "request"))

====
